---- MODULE Spec2Model ----
(***************************************************************************)
(* Connection / session management and state synchronisation of the LBank  *)
(* client (src/src/Lbank_client).  The module holds several               *)
(* specifications over one set of variables; each specification moves only *)
(* its own group of variables:                                             *)
(*   Spec, FairSpec  the stream client: WebSocketClient, WSConnectionManager*)
(*                   (WebSockets/WSConnection.py) and the ClientManager    *)
(*                   watchdog and stop.                                    *)
(*   SpecCache       concurrent tasks calling StateCache.update_order and  *)
(*                   close_order (Lbank_client_utils.py).                  *)
(*   SpecRecon       ClientManager._periodic_reconciliation against the    *)
(*                   StateCache, with the push handlers; FairSpecRecon     *)
(*                   adds that the 300 s sleep returns.                    *)
(*   SpecBackoff     ws_handler.WSConnectionManager.connect: the retry     *)
(*                   loop and the delays it waits.                         *)
(*   SpecPush        the push handlers of ClientManager: kbar and order     *)
(*                   update frames into the StateCache (ClientManager.py). *)
(*   SpecOrder       ClientManager.place_order, with the exchange's pushes  *)
(*                   arriving while it awaits the REST call.               *)
(*   SpecRead        the cached-state readers of ClientManager over a cache *)
(*                   written by sync, reconciliation and pushes.           *)
(*   SpecFrames      MessageProcessor.process_incoming_message over the     *)
(*                   decoded frames (WebSockets/WSMessage_Processor.py).   *)
(*   SpecListen      ws_handler.WSConnectionManager.listen driving connect. *)
(*   SpecSubs        ws_handler.WebSocketClient: the subscription pass and  *)
(*                   the key maintenance loop (FairSpecSubs: fair turns).  *)
(*   SpecRace        balance and order pushes arriving while a              *)
(*                   reconciliation cycle is in flight.                    *)
(*   SpecAsset       ClientManager._on_asset_update_from_ws.                *)
(*   SpecHist        ClientManager._on_historical_kbar_from_ws.             *)
(*   SpecApi         API/WebSockets/WSClient.WebSocketClient.start and stop.*)
(*   FairSpecLock    StateCache's lock among tasks that also await I/O.     *)
(*   FairSpecQuiet   reconciliation cycles after the last push has arrived. *)
(*   SpecPass        the same key with the maintenance loop asleep during   *)
(*                   the subscription pass, and WebSocketClient.stop.      *)
(*   SpecKey         SubscriptionManager's session key: the subscription   *)
(*                   pass and the key-maintenance loop (WSSubscription.py).*)
(*   SpecAlias       the objects behind the StateCache accessors: which    *)
(*                   records a returned copy shares with the cache.        *)
(***************************************************************************)
EXTENDS Integers, Sequences, FiniteSets, TLC

\* ------------------------------------------------------------------ bounds
\* Consecutive failed connection attempts the environment may cause.
MaxAttempts == 2
\* Frames the exchange delivers on the stream.
MaxFrames == 3
\* StateCache calls each concurrent task issues.
MaxCalls == 2
\* Record objects (per-order and per-coin dicts) allocated.
MaxRefs == 3
\* Calls of ClientManager.stop.
MaxStopCalls == 2
\* Session keys the exchange mints.
MaxTokens == 3
\* Klines kept per symbol.
MaxKbars == 1
\* Kbar frames pushed per symbol.
MaxPushedBars == 2
\* Open-times of pushed kbars: 1..MaxOpenTime.
MaxOpenTime == 2
\* Calls of ClientManager.place_order.
MaxPlaceOrders == 2
MaxRefreshes == 2        \* wake-ups of ws_handler's key maintenance loop
MaxWsKeys == 2           \* session keys the exchange issues to ws_handler
\* Values random.random() takes: j / JitterSteps for j in 0..JitterSteps-1.
JitterSteps == 2
\* Transient failures counted past max_reconnect_attempts + 1 when connect()
\* is called again after it gave up.
MaxOverrun == 1

\* --------------------------------------------------------------- variables
VARIABLES
    hasCreds,            \* API_KEY and API_SECRET are both configured
    cmState,             \* ClientManager: "created" | "running" | "stopping" |
                         \* "revoking" | "closing" | "stopped"
    connection,          \* WSConnectionManager.connection: "none" | "open" | "closed"
    keep_running,        \* WSConnectionManager.keep_running
    reconnect_attempts,  \* WSConnectionManager.reconnect_attempts
    pc,                  \* position of every task of the stream client
    subsIdx,             \* next entry of the subscription pass
    subsSent,            \* subscribe/request messages sent on the current connection
    framesLeft,          \* frames the exchange may still deliver
    connEpoch,           \* connections established so far
    lastFrame,           \* what the listener did with the last frame it received
    nonJsonDropped,      \* a non-JSON frame was dropped on the current connection
    handlerCalls,        \* push-data handler invocations
    lastKind,            \* the kind of the last frame the listener read
    keyHeld,             \* the stream client's SubscriptionManager holds a key
    keyReqs,             \* session-key requests issued: "obtain" | "refresh" | "destroy"
    stopLog,             \* what ClientManager.stop has done so far, in order
    stopCalls,           \* calls of ClientManager.stop
    revokeResult,        \* "none" | "ok" | "failed": the destroy-key request
    startPc,             \* ClientManager.start: "none" | "sync" | "gather" |
                         \* "returned"
    \* StateCache (Lbank_client_utils.py)
    balances,            \* StateCache._balances: coin -> amounts
    orders,              \* StateCache._orders: order id -> order data
    lock,                \* StateCache._lock: "free" or the task holding it
    cpc,                 \* per calling task: "idle" | "acquire" | "body"
    cur,                 \* per calling task: the call in progress
    hist,                \* per calling task: the calls that have returned
    \* StateCache with object identity
    heap,                \* object reference -> content of the record
    ordersRef,           \* StateCache._orders: order id -> record object
    balancesRef,         \* StateCache._balances: coin -> record object
    retOrders,           \* the dict the last get_orders() returned
    retBalances,         \* the dict the last get_balances() returned
    aliasLast,           \* who took the last step: "mutator" | "get" | "caller"
    \* SubscriptionManager
    subscribeKey,        \* SubscriptionManager.subscribeKey: 0 is None
    minted,              \* session keys the exchange has minted: 1..minted
    kpc,                 \* per task: "idle" | "refreshing" | "obtaining" | "done"
    kArg,                \* per task: the key its refresh request carries
    kVia,                \* per task: how it reached get_subscribe_key
    kRes,                \* per task: what its last key call returned
    privIdx,             \* next private subscription of the pass
    privSent,            \* private subscribe messages sent: [kind, key]
    rotatedOut,          \* keys whose refresh failed and that a new key replaced
    \* ClientManager._periodic_reconciliation
    rpc,                 \* "init" | "sync_balances" | "sync_orders" | "sleep" |
                         \* "fetch_balances" | "fetch_orders" | "cancelled" | "done"
    rest_balances,       \* the local rest_balances
    rest_orders,         \* the local rest_orders
    kbars,               \* StateCache._kbars
    reconCalls,          \* StateCache mutators the current cycle has called
    reconOutcome,        \* "none" | "running" | "complete" | "failed" | "skipped"
                         \* and of the initial sync: "syncing" | "synced" |
                         \* "sync_failed" | "sync_skipped"
    \* the push handlers of ClientManager
    lastStatus,          \* order id -> the status of the last update pushed
                         \* for it, as a set: {} before the first
    \* ClientManager.place_order
    opc,                 \* "idle" | "awaiting_rest"
    oArgs,               \* the arguments of the last place_order call
    placeCalls,          \* calls of place_order so far
    restCall,            \* what rest_trading.place_order was called with
    restOutcome,         \* how the REST call of the last place_order ended
    oReturn,             \* how the last place_order ended for its caller
    \* the cached-state readers of ClientManager
    readResult,          \* the last reader call: which reader, how it ended
    \* MessageProcessor.process_incoming_message
    frame,               \* the decoded frame last processed
    branches,            \* the handling branches its processing entered
    effect,              \* what the branch did with the frame
    procRaised,          \* process_incoming_message raised
    \* ws_handler.WebSocketClient: subscription pass and key maintenance
    ws_running,          \* WebSocketClient._running
    ws_conn_open,        \* connection_manager.connection is set and not closed
    subscribe_key_rest,  \* SubscriptionManager.subscribe_key_rest, 0 for None
    ws_minted,           \* session keys issued so far
    mpc,                 \* start() / _maintain_subscribe_key_loop position
    refreshes,           \* wake-ups of the maintenance loop so far
    last_refresh,        \* what its last refresh_ws_subscribe_key returned
    pass_caller,         \* who runs _subscribe_to_configured_streams
    pass_pc,             \* position of that pass
    pass_idx,            \* index of the entry the for loop is at
    success_all,         \* its local success_all
    pass_log,            \* entries attempted by the pass, in order
    pass_result,         \* what the pass returned
    \* pushes racing with a reconciliation cycle
    lastAssetPush,       \* the last balance push and where the cycle was
    lastOrderPush,       \* the last order push and where the cycle was
    \* historical-kline responses
    lastHistorical,      \* the last non-empty historical response delivered
    \* API/WebSockets/WSClient.WebSocketClient
    api_pc,          \* where start() is: "created", "waiting", "shutdown", "stopped"
    api_tasks,       \* self.tasks: task name -> "none", "running", "done", "cancelled"
    api_done,        \* the `done` set asyncio.wait returned to start()
    api_connection,  \* manager.connection: "none", "open", "lost"
    api_teardown,    \* what cancelled the session's tasks: "none", "completion", "stop"
    \* the exchange's account state once pushes have ceased
    quiet,           \* TRUE from the moment after which no push arrives
    srv_balances,    \* the balance snapshot REST returns from then on
    srv_orders,      \* the open-orders snapshot REST returns from then on
    \* ws_handler.WSConnectionManager
    wsh_pc,              \* connect(): "idle" | "connecting" | "sleeping" |
                         \* "connected" | "returned_false" | "raised"
    wsh_connection,      \* "none" | "open" | "closed"
    wsh_keep_running,    \* self._keep_running
    wsh_reconnect_attempts, \* self.reconnect_attempts
    delay,               \* the last backoff delay computed, seconds; 0: none
                         \* since the last successful connect
    actual_delay         \* the last delay slept, in 1/Scale seconds; 0: none
                         \* since the last successful connect

connVars == <<hasCreds, cmState, connection, keep_running, reconnect_attempts,
              pc, subsIdx, subsSent, framesLeft, connEpoch, lastFrame,
              nonJsonDropped, handlerCalls, lastKind, keyHeld, keyReqs, stopLog,
              stopCalls, revokeResult, startPc>>

\* The session key of the stream client and the record of its shutdown.
keyStopVars == <<keyHeld, keyReqs, stopLog, stopCalls, revokeResult>>

cacheVars == <<balances, orders, lock, cpc, cur, hist>>

aliasVars == <<heap, ordersRef, balancesRef, retOrders, retBalances, aliasLast>>

keyVars == <<subscribeKey, minted, kpc, kArg, kVia, kRes, privIdx, privSent,
             rotatedOut>>

reconVars == <<rpc, rest_balances, rest_orders, kbars, reconCalls, reconOutcome>>

backoffVars == <<wsh_pc, wsh_connection, wsh_keep_running,
                 wsh_reconnect_attempts, delay, actual_delay>>

pushVars == <<lastStatus>>

orderVars == <<opc, oArgs, placeCalls, restCall, restOutcome, oReturn>>

readVars == <<readResult>>

frameVars == <<frame, branches, effect, procRaised>>

subsVars == <<ws_running, ws_conn_open, subscribe_key_rest, ws_minted, mpc, refreshes, last_refresh, pass_caller, pass_pc, pass_idx, success_all, pass_log, pass_result>>

raceVars == <<lastAssetPush, lastOrderPush>>

histVars == <<lastHistorical>>

apiVars == <<api_pc, api_tasks, api_done, api_connection, api_teardown>>

quietVars == <<quiet, srv_balances, srv_orders>>

vars == <<connVars, cacheVars, aliasVars, keyVars, reconVars, backoffVars,
          pushVars,
          orderVars,
          readVars,
          frameVars,
          subsVars,
          raceVars,
          histVars,
          apiVars,
          quietVars>>

\* What the actions of one group leave alone.
notConn == <<cacheVars, aliasVars, keyVars, reconVars, backoffVars, pushVars,
           orderVars,
           readVars,
           frameVars,
           subsVars,
           raceVars,
           histVars,
           apiVars,
           quietVars>>
notCache == <<connVars, aliasVars, keyVars, reconVars, backoffVars, pushVars,
            orderVars,
            readVars,
            frameVars,
            subsVars,
            raceVars,
            histVars,
            apiVars,
            quietVars>>
notAlias == <<connVars, cacheVars, keyVars, reconVars, backoffVars, pushVars,
            orderVars,
            readVars,
            frameVars,
            subsVars,
            raceVars,
            histVars,
            apiVars,
            quietVars>>
notKey == <<connVars, cacheVars, aliasVars, reconVars, backoffVars, pushVars,
          orderVars,
          readVars,
          frameVars,
          subsVars,
          raceVars,
          histVars,
          apiVars,
          quietVars>>
notRecon == <<connVars, aliasVars, keyVars, lock, cpc, cur, hist, backoffVars,
             pushVars,
            orderVars,
            readVars,
            frameVars,
            subsVars,
            raceVars,
            histVars,
            apiVars,
            quietVars>>
notPush == <<connVars, aliasVars, keyVars, balances, lock, cpc, cur, hist,
             rpc, rest_balances, rest_orders, reconCalls, reconOutcome,
             backoffVars,
           orderVars,
           readVars,
           frameVars,
           subsVars,
           raceVars,
           histVars,
           apiVars,
           quietVars>>
notBackoff == <<connVars, cacheVars, aliasVars, keyVars, reconVars, pushVars,
              orderVars,
              readVars,
              frameVars,
              subsVars,
              raceVars,
              histVars,
              apiVars,
              quietVars>>
notOrder == <<connVars, aliasVars, keyVars, balances, lock, cpc, cur, hist,
             rpc, rest_balances, rest_orders, reconCalls, reconOutcome,
             backoffVars, pushVars,
            readVars,
            frameVars,
            subsVars,
            raceVars,
            histVars,
            apiVars,
            quietVars>>
notRead == <<connVars, cacheVars, aliasVars, keyVars, reconVars,
    backoffVars, pushVars, orderVars,
           frameVars,
           subsVars,
           raceVars,
           histVars,
           apiVars,
           quietVars>>
notFrame == <<connVars, cacheVars, aliasVars, keyVars, reconVars,
    backoffVars, pushVars, orderVars, readVars,
            subsVars,
            raceVars,
            histVars,
            apiVars,
            quietVars>>
notSubs == <<connVars, cacheVars, aliasVars, keyVars, reconVars,
    backoffVars, pushVars, orderVars, readVars, frameVars,
           raceVars,
           histVars,
           apiVars,
           quietVars>>
notRace == <<connVars, cacheVars, aliasVars, keyVars, reconVars,
    backoffVars, pushVars, orderVars, readVars, frameVars, subsVars,
           histVars,
           apiVars,
           quietVars>>
notHist == <<connVars, cacheVars, aliasVars, keyVars, reconVars,
    backoffVars, pushVars, orderVars, readVars, frameVars, subsVars, raceVars,
           apiVars,
           quietVars>>
notApi == <<connVars, cacheVars, aliasVars, keyVars, reconVars, backoffVars,
    pushVars, orderVars, readVars, frameVars, subsVars, raceVars, histVars,
          quietVars>>
notQuiet == <<connVars, cacheVars, aliasVars, keyVars, reconVars,
    backoffVars, pushVars, orderVars, readVars, frameVars, subsVars, raceVars,
    histVars, apiVars>>

\* ------------------------------------------------------------ stream client
Tasks == {"wsMain", "listener", "checker", "subs", "keyMaint", "watchdog",
          "recon"}
\* ClientManager._background_tasks.
BackgroundTasks == {"wsMain", "watchdog", "recon"}
\* Tasks that can be inside WSConnectionManager.connect().
ConnTasks == {"wsMain", "listener", "checker"}
\* The four tasks WebSocketClient.start gathers.
WsTasks == {"listener", "checker", "subs", "keyMaint"}

MsgKinds == {"kbar", "request_kbar", "orderUpdate", "assetUpdate"}
\* "kbar_raises" is a kbar frame on which the registered handler raises.
FrameKinds == {"nonjson", "status", "kbar", "kbar_raises"}

Ended(p) == p \in {"none", "done", "cancelled"}
Running(p) == ~Ended(p)

\* A pass that always holds the private subscriptions.
SubsPlanIgnoresCredentials ==
    <<"kbar", "request_kbar", "orderUpdate", "assetUpdate">>

\* The messages of one pass of _subscribe_to_streams, in order.
SubsPlan ==
    IF hasCreds THEN <<"kbar", "request_kbar", "orderUpdate", "assetUpdate">>
    ELSE <<"kbar", "request_kbar">>

\* The subscriptions the client declares (request_kbar is a one-off request).
Declared == IF hasCreds THEN {"kbar", "orderUpdate", "assetUpdate"} ELSE {"kbar"}

\* WebSocketClient.is_connected
is_connected == connection = "open"

StopRequested == cmState \notin {"created", "running"}

InitConn ==
    /\ hasCreds \in BOOLEAN
    /\ cmState = "created"
    /\ connection = "none"
    /\ keep_running = TRUE
    /\ reconnect_attempts = 0
    /\ pc = [t \in Tasks |-> "none"]
    /\ subsIdx = 1
    /\ subsSent = [k \in MsgKinds |-> 0]
    /\ framesLeft = MaxFrames
    /\ connEpoch = 0
    /\ lastFrame = "none"
    /\ nonJsonDropped = FALSE
    /\ handlerCalls = 0
    /\ lastKind = "none"
    /\ keyHeld = FALSE
    /\ keyReqs = {}
    /\ stopLog = <<>>
    /\ stopCalls = 0
    /\ revokeResult = "none"
    /\ startPc = "none"

\* The head of a `while self.keep_running` loop of task t.
LoopTop(t, kr) ==
    IF ~kr THEN "done"
    ELSE IF t = "listener" THEN "listen" ELSE "sleep"

\* What the caller of connect() does once connect() has returned.
\* WebSocketClient.start creates its four tasks only on an open connection.
AfterConnect(t, kr, conn) ==
    IF t = "wsMain"
    THEN IF conn = "open"
         THEN [pc EXCEPT !["wsMain"] = "gather",
                         !["listener"] = LoopTop("listener", kr),
                         !["checker"] = LoopTop("checker", kr),
                         !["subs"] = "run",
                         !["keyMaint"] = IF hasCreds THEN "sleep" ELSE "done"]
         ELSE [pc EXCEPT !["wsMain"] = "done"]
    ELSE [pc EXCEPT ![t] = LoopTop(t, kr)]

\* The tasks ClientManager.start creates, at their first suspension point.
\* The watchdog and reconciliation loops are `while self._running`, and
\* WebSocketClient.start returns when connect(), `while self.keep_running`,
\* leaves no connection: created after a stop() they end in their first
\* step, before any await.
TasksCreated(running) ==
    [pc EXCEPT !["wsMain"] = IF running THEN "connect" ELSE "done",
               !["watchdog"] = IF running THEN "sleep" ELSE "done",
               !["recon"] = IF running THEN "sleep" ELSE "done"]

\* ClientManager.start: sets _running and awaits _sync_initial_state, which
\* awaits the REST snapshots when credentials are configured and has no
\* suspension point otherwise; then the stream client task, the watchdog and
\* the reconciliation task are created.
CMStart ==
    /\ cmState = "created"
    /\ cmState' = "running"
    /\ IF hasCreds
       THEN startPc' = "sync" /\ UNCHANGED pc
       ELSE startPc' = "gather" /\ pc' = TasksCreated(TRUE)
    /\ UNCHANGED <<hasCreds, connection, keep_running, reconnect_attempts,
                   subsIdx, subsSent, framesLeft, connEpoch, lastFrame,
                   nonJsonDropped, handlerCalls>>
    /\ UNCHANGED <<lastKind, keyStopVars>>
    /\ UNCHANGED notConn

\* ClientManager.start: _sync_initial_state has returned, applied or failed
\* and logged; the tasks are created whatever _running is by now.
CMStartSynced ==
    /\ startPc = "sync"
    /\ startPc' = "gather"
    /\ pc' = TasksCreated(cmState = "running")
    /\ UNCHANGED <<hasCreds, cmState, connection, keep_running,
                   reconnect_attempts, subsIdx, subsSent, framesLeft,
                   connEpoch, lastFrame, nonJsonDropped, handlerCalls>>
    /\ UNCHANGED <<lastKind, keyStopVars>>
    /\ UNCHANGED notConn

\* connect(): `while self.keep_running` is false, so connect returns at once.
ConnectSkipped(t) ==
    /\ pc[t] = "connect"
    /\ ~keep_running
    /\ pc' = AfterConnect(t, keep_running, connection)
    /\ subsIdx' = IF t = "wsMain" /\ connection = "open" THEN 1 ELSE subsIdx
    /\ UNCHANGED <<hasCreds, cmState, connection, keep_running,
                   reconnect_attempts, subsSent, framesLeft, connEpoch,
                   lastFrame, nonJsonDropped, handlerCalls>>
    /\ UNCHANGED <<lastKind, keyStopVars>>
    /\ UNCHANGED startPc
    /\ UNCHANGED notConn

\* connect(): websockets.connect succeeded.
ConnectSucceeds(t) ==
    /\ pc[t] = "connect"
    /\ keep_running
    /\ connection' = "open"
    /\ reconnect_attempts' = 0
    /\ connEpoch' = connEpoch + 1
    /\ subsSent' = [k \in MsgKinds |-> 0]
    /\ nonJsonDropped' = FALSE
    /\ pc' = AfterConnect(t, keep_running, "open")
    /\ subsIdx' = IF t = "wsMain" THEN 1 ELSE subsIdx
    /\ UNCHANGED <<hasCreds, cmState, keep_running, framesLeft, lastFrame,
                   handlerCalls>>
    /\ UNCHANGED <<lastKind, keyStopVars>>
    /\ UNCHANGED startPc
    /\ UNCHANGED notConn

\* connect(): websockets.connect raised; count the attempt and sleep.
ConnectFails(t) ==
    /\ pc[t] = "connect"
    /\ keep_running
    /\ reconnect_attempts < MaxAttempts
    /\ reconnect_attempts' = reconnect_attempts + 1
    /\ pc' = [pc EXCEPT ![t] = "backoff"]
    /\ UNCHANGED <<hasCreds, cmState, connection, keep_running, subsIdx,
                   subsSent, framesLeft, connEpoch, lastFrame, nonJsonDropped,
                   handlerCalls>>
    /\ UNCHANGED <<lastKind, keyStopVars>>
    /\ UNCHANGED startPc
    /\ UNCHANGED notConn

\* connect(): the backoff sleep ends and the loop tests keep_running again.
BackoffWake(t) ==
    /\ pc[t] = "backoff"
    /\ pc' = [pc EXCEPT ![t] = "connect"]
    /\ UNCHANGED <<hasCreds, cmState, connection, keep_running,
                   reconnect_attempts, subsIdx, subsSent, framesLeft,
                   connEpoch, lastFrame, nonJsonDropped, handlerCalls>>
    /\ UNCHANGED <<lastKind, keyStopVars>>
    /\ UNCHANGED startPc
    /\ UNCHANGED notConn

\* reconnect() = stop() then connect().  stop() clears keep_running first and
\* awaits connection.close() when the connection is still open; on a
\* connection that is None or closed it returns without suspending and
\* connect() runs at once.
ReconnectPc(t, conn) ==
    IF conn = "open" THEN [pc EXCEPT ![t] = "closing"]
    ELSE [pc EXCEPT ![t] = "connect"]

\* The object WebSocketClient.start hands to WSConnectionManager.listen: the
\* bound method found by getattr(message_processor, "process_incoming_message").
ListenArgument == "bound_method"

\* listen() evaluates message_processor.process_incoming_message on the object
\* it was given: the attribute exists on a MessageProcessor instance and not
\* on a bound method.
HasProcessIncomingMessage(obj) == obj = "processor_object"

\* listen(): a frame arrives while the listener iterates the open connection.
\*  - non-JSON: json.loads raises JSONDecodeError, which is logged; the while
\*    loop iterates the same connection again;
\*  - JSON: the frame goes to message_processor.process_incoming_message; an
\*    AttributeError from that evaluation lands in `except Exception`,
\*    which calls reconnect().  Where the call is made, process_data_message
\*    catches what the registered handler raises and returns normally.
ListenerFrame(kind) ==
    /\ pc["listener"] = "listen"
    /\ connection = "open"
    /\ framesLeft > 0
    /\ framesLeft' = framesLeft - 1
    /\ lastKind' = kind
    /\ IF kind = "nonjson"
       THEN /\ lastFrame' = "dropped"
            /\ nonJsonDropped' = TRUE
            /\ pc' = [pc EXCEPT !["listener"] = LoopTop("listener", keep_running)]
            /\ UNCHANGED <<keep_running, handlerCalls>>
       ELSE IF HasProcessIncomingMessage(ListenArgument)
       THEN /\ lastFrame' = IF kind = "kbar_raises" THEN "handler_error"
                            ELSE "processed"
            /\ handlerCalls' = IF kind \in {"kbar", "kbar_raises"}
                               THEN handlerCalls + 1 ELSE handlerCalls
            /\ UNCHANGED <<keep_running, pc, nonJsonDropped>>
       ELSE /\ lastFrame' = "error"
            /\ keep_running' = FALSE
            /\ pc' = ReconnectPc("listener", connection)
            /\ UNCHANGED <<handlerCalls, nonJsonDropped>>
    /\ UNCHANGED <<hasCreds, cmState, connection, reconnect_attempts, subsIdx,
                   subsSent, connEpoch>>
    /\ UNCHANGED keyStopVars
    /\ UNCHANGED startPc
    /\ UNCHANGED notConn

\* listen(): the connection is None or closed.  Iterating a closed connection
\* either raises ConnectionClosed (abnormal closure), handled by reconnect(),
\* or ends the iteration (normal closure), after which the while loop tests
\* keep_running and iterates the same closed connection again.
ListenerSeesClosed ==
    /\ pc["listener"] = "listen"
    /\ connection # "open"
    /\ \/ /\ keep_running' = FALSE
          /\ pc' = ReconnectPc("listener", connection)
       \/ /\ connection = "closed"
          /\ pc' = [pc EXCEPT !["listener"] = LoopTop("listener", keep_running)]
          /\ UNCHANGED keep_running
    /\ UNCHANGED <<hasCreds, cmState, connection, reconnect_attempts, subsIdx,
                   subsSent, framesLeft, connEpoch, lastFrame, nonJsonDropped,
                   handlerCalls>>
    /\ UNCHANGED <<lastKind, keyStopVars>>
    /\ UNCHANGED startPc
    /\ UNCHANGED notConn

\* stop() inside reconnect(): connection.close() has completed; connect() follows.
ReconnectClosed(t) ==
    /\ pc[t] = "closing"
    /\ connection' = IF connection = "open" THEN "closed" ELSE connection
    /\ pc' = [pc EXCEPT ![t] = "connect"]
    /\ UNCHANGED <<hasCreds, cmState, keep_running, reconnect_attempts,
                   subsIdx, subsSent, framesLeft, connEpoch, lastFrame,
                   nonJsonDropped, handlerCalls>>
    /\ UNCHANGED <<lastKind, keyStopVars>>
    /\ UNCHANGED startPc
    /\ UNCHANGED notConn

\* check_connection(): the 30 s sleep ends; a missing or closed connection
\* is handed to reconnect(), otherwise the loop tests keep_running.
CheckerWake ==
    /\ pc["checker"] = "sleep"
    /\ IF connection # "open"
       THEN /\ keep_running' = FALSE
            /\ pc' = ReconnectPc("checker", connection)
       ELSE /\ pc' = [pc EXCEPT !["checker"] = LoopTop("checker", keep_running)]
            /\ UNCHANGED keep_running
    /\ UNCHANGED <<hasCreds, cmState, connection, reconnect_attempts, subsIdx,
                   subsSent, framesLeft, connEpoch, lastFrame, nonJsonDropped,
                   handlerCalls>>
    /\ UNCHANGED <<lastKind, keyStopVars>>
    /\ UNCHANGED startPc
    /\ UNCHANGED notConn

\* SubscriptionManager.send_message: the message is written only to an open
\* connection; on a closed one a warning is logged.
SendOn(conn, sent, kind) ==
    IF conn = "open" THEN [sent EXCEPT ![kind] = sent[kind] + 1] ELSE sent

\* _ensure_key_for_private_subscription with its requests answered: with a
\* key held a refresh is requested and, when that fails, an obtain; without
\* one an obtain is requested.  The key is held afterwards unless the obtain
\* failed.
EnsureRequests(held, refreshOk) ==
    IF held THEN (IF refreshOk THEN {"refresh"} ELSE {"refresh", "obtain"})
    ELSE {"obtain"}
EnsureHeld(held, refreshOk, obtainOk) ==
    IF held /\ refreshOk THEN TRUE ELSE obtainOk

\* _subscribe_to_streams: returns at once without an active connection;
\* otherwise sends the next message of the pass.  A private subscribe is
\* sent only when the session key could be ensured.
SubsStep ==
    /\ pc["subs"] = "run"
    /\ IF subsIdx = 1 /\ connection # "open"
       THEN /\ pc' = [pc EXCEPT !["subs"] = "done"]
            /\ UNCHANGED <<subsIdx, subsSent, keyHeld, keyReqs>>
       ELSE LET kind == SubsPlan[subsIdx]
                private == kind \in {"orderUpdate", "assetUpdate"}
            IN /\ IF private
                  THEN \E refreshOk \in BOOLEAN, obtainOk \in BOOLEAN :
                          /\ keyReqs' = keyReqs \cup EnsureRequests(keyHeld, refreshOk)
                          /\ keyHeld' = EnsureHeld(keyHeld, refreshOk, obtainOk)
                          /\ subsSent' = IF keyHeld'
                                         THEN SendOn(connection, subsSent, kind)
                                         ELSE subsSent
                  ELSE /\ subsSent' = SendOn(connection, subsSent, kind)
                       /\ UNCHANGED <<keyHeld, keyReqs>>
               /\ subsIdx' = subsIdx + 1
               /\ pc' = [pc EXCEPT !["subs"] =
                            IF subsIdx = Len(SubsPlan) THEN "done" ELSE "run"]
    /\ UNCHANGED <<hasCreds, cmState, connection, keep_running,
                   reconnect_attempts, framesLeft, connEpoch, lastFrame,
                   nonJsonDropped, handlerCalls, lastKind, stopLog, stopCalls,
                   revokeResult>>
    /\ UNCHANGED startPc
    /\ UNCHANGED notConn

\* _maintain_subscribe_key: the 20 h sleep ends; a held key is refreshed and,
\* when the refresh fails, replaced by a newly obtained one.
KeyMaintWake ==
    /\ pc["keyMaint"] = "sleep"
    /\ keyHeld
    /\ \E refreshOk \in BOOLEAN, obtainOk \in BOOLEAN :
          /\ keyReqs' = keyReqs \cup EnsureRequests(keyHeld, refreshOk)
          /\ keyHeld' = EnsureHeld(keyHeld, refreshOk, obtainOk)
    /\ UNCHANGED <<hasCreds, cmState, connection, keep_running,
                   reconnect_attempts, pc, subsIdx, subsSent, framesLeft,
                   connEpoch, lastFrame, nonJsonDropped, handlerCalls, lastKind,
                   stopLog, stopCalls, revokeResult>>
    /\ UNCHANGED startPc
    /\ UNCHANGED notConn

\* _periodic_reconciliation: the 300 s sleep ends; with credentials a cycle
\* runs, without them it is skipped.
ReconTaskWake ==
    /\ pc["recon"] = "sleep"
    /\ cmState = "running"
    /\ hasCreds
    /\ pc' = [pc EXCEPT !["recon"] = "cycle"]
    /\ UNCHANGED <<hasCreds, cmState, connection, keep_running,
                   reconnect_attempts, subsIdx, subsSent, framesLeft,
                   connEpoch, lastFrame, nonJsonDropped, handlerCalls, lastKind>>
    /\ UNCHANGED keyStopVars
    /\ UNCHANGED startPc
    /\ UNCHANGED notConn

\* _periodic_reconciliation: the cycle ends, applied or failed and logged,
\* and the loop sleeps again.
ReconTaskCycleEnds ==
    /\ pc["recon"] = "cycle"
    /\ pc' = [pc EXCEPT !["recon"] = "sleep"]
    /\ UNCHANGED <<hasCreds, cmState, connection, keep_running,
                   reconnect_attempts, subsIdx, subsSent, framesLeft,
                   connEpoch, lastFrame, nonJsonDropped, handlerCalls, lastKind>>
    /\ UNCHANGED keyStopVars
    /\ UNCHANGED startPc
    /\ UNCHANGED notConn

\* WebSocketClient.start: asyncio.gather returns when all four tasks ended.
WsGatherDone ==
    /\ pc["wsMain"] = "gather"
    /\ \A t \in WsTasks : Ended(pc[t])
    /\ pc' = [pc EXCEPT !["wsMain"] = "done"]
    /\ UNCHANGED <<hasCreds, cmState, connection, keep_running,
                   reconnect_attempts, subsIdx, subsSent, framesLeft,
                   connEpoch, lastFrame, nonJsonDropped, handlerCalls>>
    /\ UNCHANGED <<lastKind, keyStopVars>>
    /\ UNCHANGED startPc
    /\ UNCHANGED notConn

\* ClientManager._reconnection_watchdog: every 15 s, when the stream client
\* is not connected and its WebSocketClient_MainLoop task is done, a new
\* ws_client.start() task replaces it.
WatchdogWake ==
    /\ pc["watchdog"] = "sleep"
    /\ cmState = "running"
    /\ pc' = IF ~is_connected /\ pc["wsMain"] = "done"
             THEN [pc EXCEPT !["wsMain"] = "connect"]
             ELSE pc
    /\ UNCHANGED <<hasCreds, cmState, connection, keep_running,
                   reconnect_attempts, subsIdx, subsSent, framesLeft,
                   connEpoch, lastFrame, nonJsonDropped, handlerCalls>>
    /\ UNCHANGED <<lastKind, keyStopVars>>
    /\ UNCHANGED startPc
    /\ UNCHANGED notConn

\* ClientManager.start: its asyncio.gather(*self._background_tasks) ends
\* when the three tasks have ended; the watchdog and the reconciliation loop
\* run while _running is set, so that is after a stop() has cleared it, and
\* the stop() of the finally clause returns at once.  start() returns.
CMStartReturns ==
    /\ startPc = "gather"
    /\ \A t \in BackgroundTasks : Ended(pc[t])
    /\ cmState # "running"
    /\ startPc' = "returned"
    /\ UNCHANGED <<hasCreds, cmState, connection, keep_running,
                   reconnect_attempts, pc, subsIdx, subsSent, framesLeft,
                   connEpoch, lastFrame, nonJsonDropped, handlerCalls>>
    /\ UNCHANGED <<lastKind, keyStopVars>>
    /\ UNCHANGED notConn

\* A stop() that never takes its early return.
StopNeverReturnsAtOnce(st) == FALSE

\* ClientManager.stop: `if not self._running: return`
StopReturnsAtOnce(st) == st # "running"

\* task.cancel() on each of _background_tasks; cancelling the stream client
\* task cancels the tasks its gather holds.
CancelSet(S) == S \cup (IF "wsMain" \in S THEN WsTasks ELSE {})

\* A stop() that leaves the connection as it is.
ConnectionLeftAsIs(conn) == conn

\* WSConnectionManager.stop: an open connection is closed.
ConnectionAfterStop(conn) == IF conn = "open" THEN "closed" ELSE conn

\* WSConnectionManager.stop is entered: keep_running is cleared and an open
\* connection's close() is awaited.
StateEnteringManagerStop(conn) == IF conn = "open" THEN "closing" ELSE "stopped"

\* ClientManager.stop is called.  Not running, it returns at once; running,
\* it clears _running, cancels the background tasks and awaits them.  Called
\* before start() has created them, `if self._background_tasks` skips the
\* gather and ws_client.stop() follows with no suspension: no task to await,
\* no key to delete, WSConnectionManager.stop clears keep_running.
CMStop ==
    /\ stopCalls < MaxStopCalls
    /\ stopCalls' = stopCalls + 1
    /\ IF StopReturnsAtOnce(cmState)
       THEN UNCHANGED <<cmState, pc, stopLog, keep_running>>
       ELSE IF startPc = "gather"
       THEN /\ cmState' = "stopping"
            /\ pc' = [t \in Tasks |->
                        IF t \in CancelSet(BackgroundTasks) /\ Running(pc[t])
                        THEN "cancelling" ELSE pc[t]]
            /\ stopLog' = Append(stopLog, "cancel")
            /\ UNCHANGED keep_running
       ELSE /\ cmState' = StateEnteringManagerStop(connection)
            /\ keep_running' = FALSE
            /\ stopLog' = stopLog \o <<"cancel", "tasks_ended", "close">>
            /\ UNCHANGED pc
    /\ UNCHANGED <<hasCreds, connection, reconnect_attempts,
                   subsIdx, subsSent, framesLeft, connEpoch, lastFrame,
                   nonJsonDropped, handlerCalls, lastKind, keyHeld, keyReqs,
                   revokeResult>>
    /\ UNCHANGED startPc
    /\ UNCHANGED notConn

\* A cancelled background task receives CancelledError at its await and
\* ends; the stream client task ends when the tasks its gather holds have
\* ended on their CancelledError.
TaskCancelled(t) ==
    /\ pc[t] = "cancelling"
    /\ pc' = [u \in Tasks |->
                IF u \in CancelSet({t}) /\ pc[u] = "cancelling"
                THEN "cancelled" ELSE pc[u]]
    /\ UNCHANGED <<hasCreds, cmState, connection, keep_running,
                   reconnect_attempts, subsIdx, subsSent, framesLeft,
                   connEpoch, lastFrame, nonJsonDropped, handlerCalls, lastKind>>
    /\ UNCHANGED keyStopVars
    /\ UNCHANGED startPc
    /\ UNCHANGED notConn

\* A stop() that does not await the tasks it cancelled.
StopGatherNotAwaited == TRUE

\* ClientManager.stop: asyncio.gather(*self._background_tasks,
\* return_exceptions=True) returns when every background task has ended.
StopGatherDone == \A t \in BackgroundTasks : Ended(pc[t])

\* ClientManager.stop, after the gather: ws_client.stop() finds its tasks
\* done; with credentials delete_subscribe_key posts the destroy request
\* when a key is held; otherwise WSConnectionManager.stop follows at once.
CMStopGathered ==
    /\ cmState = "stopping"
    /\ StopGatherDone
    /\ IF hasCreds /\ keyHeld
       THEN /\ cmState' = "revoking"
            /\ keyReqs' = keyReqs \cup {"destroy"}
            /\ stopLog' = stopLog \o <<"tasks_ended", "revoke">>
            /\ UNCHANGED keep_running
       ELSE /\ cmState' = StateEnteringManagerStop(connection)
            /\ keep_running' = FALSE
            /\ stopLog' = stopLog \o <<"tasks_ended", "close">>
            /\ UNCHANGED keyReqs
    /\ UNCHANGED <<hasCreds, connection, reconnect_attempts, pc, subsIdx,
                   subsSent, framesLeft, connEpoch, lastFrame, nonJsonDropped,
                   handlerCalls, lastKind, keyHeld, stopCalls, revokeResult>>
    /\ UNCHANGED startPc
    /\ UNCHANGED notConn

\* A delete_subscribe_key that lets the failure of its request escape.
RevokeFailureEscapes(failed) == ~failed

\* delete_subscribe_key: the SubscriptionError of a failed request is caught.
RevokeFailureCaught(failed) == TRUE

\* delete_subscribe_key: the destroy request is answered.  Succeeded or
\* failed, the local key is cleared and ws_client.stop() goes on to
\* WSConnectionManager.stop.
RevokeReturns(failed) ==
    /\ cmState = "revoking"
    /\ revokeResult' = IF failed THEN "failed" ELSE "ok"
    /\ IF RevokeFailureCaught(failed)
       THEN /\ keyHeld' = FALSE
            /\ cmState' = StateEnteringManagerStop(connection)
            /\ keep_running' = FALSE
            /\ stopLog' = Append(stopLog, "close")
       ELSE /\ cmState' = "stop_raised"
            /\ UNCHANGED <<keyHeld, keep_running, stopLog>>
    /\ UNCHANGED <<hasCreds, connection, reconnect_attempts, pc, subsIdx,
                   subsSent, framesLeft, connEpoch, lastFrame, nonJsonDropped,
                   handlerCalls, lastKind, keyReqs, stopCalls>>
    /\ UNCHANGED startPc
    /\ UNCHANGED notConn

\* WSConnectionManager.stop: connection.close() has completed; the HTTPX
\* client is closed and ClientManager.stop returns.
CMStopClosed ==
    /\ cmState = "closing"
    /\ connection' = ConnectionAfterStop(connection)
    /\ cmState' = "stopped"
    /\ UNCHANGED <<hasCreds, keep_running, reconnect_attempts, pc, subsIdx,
                   subsSent, framesLeft, connEpoch, lastFrame, nonJsonDropped,
                   handlerCalls, lastKind>>
    /\ UNCHANGED keyStopVars
    /\ UNCHANGED startPc
    /\ UNCHANGED notConn

\* The exchange or the network closes the open connection.
ConnectionDrops ==
    /\ connection = "open"
    /\ connection' = "closed"
    /\ UNCHANGED <<hasCreds, cmState, keep_running, reconnect_attempts, pc,
                   subsIdx, subsSent, framesLeft, connEpoch, lastFrame,
                   nonJsonDropped, handlerCalls>>
    /\ UNCHANGED <<lastKind, keyStopVars>>
    /\ UNCHANGED startPc
    /\ UNCHANGED notConn

\* --------------------------------------------------------------- StateCache
Coins == {"USDT", "BTC"}
Amounts == {"90", "100"}
OrderIds == {"o1", "o2"}
CacheTasks == {"t1", "t2"}

\* The empty dict.
EmptyMap == [k \in {} |-> "x"]

\* All dicts with keys in K and values in V.
Maps(K, V) == UNION {[D -> V] : D \in SUBSET K}

\* StateCache.update_balances: self._balances.update(data)
update_balances(b, data) ==
    [c \in DOMAIN b \cup DOMAIN data |-> IF c \in DOMAIN data THEN data[c] ELSE b[c]]

\* A lost update: the dict is replaced by the one entry.
update_order_lossy(o, order_id, order_data) ==
    [k \in {order_id} |-> order_data]

\* StateCache.update_order: self._orders[order_id] = order_data
update_order(o, order_id, order_data) ==
    [k \in DOMAIN o \cup {order_id} |-> IF k = order_id THEN order_data ELSE o[k]]

\* StateCache.close_order: self._orders.pop(order_id, None)
close_order(o, order_id) ==
    [k \in DOMAIN o \ {order_id} |-> o[k]]

\* A snapshot merged into the dict it should replace.
set_balances_merges(b, full_snapshot) == update_balances(b, full_snapshot)

\* StateCache.set_balances: self._balances = full_snapshot
set_balances(b, full_snapshot) == full_snapshot

\* A set_orders that leaves the cached orders as they are.
set_orders_ignored(o, full_snapshot) == o

\* StateCache.set_orders: self._orders = full_snapshot
set_orders(o, full_snapshot) == full_snapshot

\* StateCache.get_balances: self._balances.copy()
get_balances(b) == [c \in DOMAIN b |-> b[c]]

\* StateCache.get_orders: self._orders.copy()
get_orders(o) == [k \in DOMAIN o |-> o[k]]

InitCache ==
    /\ balances = EmptyMap
    /\ orders = EmptyMap
    /\ lock = "free"
    /\ cpc = [t \in CacheTasks |-> "idle"]
    /\ cur = [t \in CacheTasks |-> [op |-> "none", id |-> "o1", data |-> <<t, 0>>]]
    /\ hist = [t \in CacheTasks |-> <<>>]

\* A task calls update_order(id, data) or close_order(id).  The data of a
\* task's k-th call is <<task, k>>, so every update carries distinct data.
CallBegin(t, op, id) ==
    /\ cpc[t] = "idle"
    /\ Len(hist[t]) < MaxCalls
    /\ cur' = [cur EXCEPT ![t] = [op |-> op, id |-> id,
                                  data |-> <<t, Len(hist[t]) + 1>>]]
    /\ cpc' = [cpc EXCEPT ![t] = "acquire"]
    /\ UNCHANGED <<balances, orders, lock, hist>>
    /\ UNCHANGED notCache

\* `async with self._lock`: the task takes the lock once it is free.
CallAcquire(t) ==
    /\ cpc[t] = "acquire"
    /\ lock = "free"
    /\ lock' = t
    /\ cpc' = [cpc EXCEPT ![t] = "body"]
    /\ UNCHANGED <<balances, orders, cur, hist>>
    /\ UNCHANGED notCache

\* The body under the lock, the release and the return: no await in between.
CallBody(t) ==
    /\ cpc[t] = "body"
    /\ lock = t
    /\ orders' = IF cur[t].op = "update_order"
                 THEN update_order(orders, cur[t].id, cur[t].data)
                 ELSE close_order(orders, cur[t].id)
    /\ lock' = "free"
    /\ hist' = [hist EXCEPT ![t] = Append(hist[t], cur[t])]
    /\ cpc' = [cpc EXCEPT ![t] = "idle"]
    /\ UNCHANGED <<balances, cur>>
    /\ UNCHANGED notCache

CacheCall == \E t \in CacheTasks, op \in {"update_order", "close_order"},
                id \in OrderIds : CallBegin(t, op, id)
CacheAcquire == \E t \in CacheTasks : CallAcquire(t)
CacheBody == \E t \in CacheTasks : CallBody(t)

NextCache ==
    \/ CacheCall
    \/ CacheAcquire
    \/ CacheBody

\* A task that awaited inside `async with self._lock`.
AwaitPointUnderLock(pcs, t) == pcs[t] \in {"idle", "body"}

\* Where the listener, the reconciliation loop and the application await
\* the network or a sleep: between StateCache calls (rest_balances = await
\* get_balances(); ... then await self.state.get_balances()), never inside
\* one, whose body under the lock has no await.
AwaitPoint(pcs, t) == pcs[t] = "idle"

\* A task starts awaiting a REST response, a frame or a sleep.
TaskAwaitsIo ==
    \E t \in CacheTasks :
        /\ AwaitPoint(cpc, t)
        /\ cpc' = [cpc EXCEPT ![t] = "io"]
        /\ UNCHANGED <<balances, orders, lock, cur, hist>>
        /\ UNCHANGED notCache

\* The response, the frame or the wake-up arrives; it may never do.
TaskIoDone ==
    \E t \in CacheTasks :
        /\ cpc[t] = "io"
        /\ cpc' = [cpc EXCEPT ![t] = "idle"]
        /\ UNCHANGED <<balances, orders, lock, cur, hist>>
        /\ UNCHANGED notCache

\* A task calls a StateCache mutator on order o1.
LockCall == \E t \in CacheTasks, op \in {"update_order", "close_order"} :
               CallBegin(t, op, "o1")

NextLock ==
    \/ LockCall
    \/ CacheAcquire
    \/ CacheBody
    \/ TaskAwaitsIo
    \/ TaskIoDone

\* ------------------------------------- ClientManager._periodic_reconciliation
Symbols == {"btc_usdt"}
\* LBank order status codes seen in pushes; 2, 3 and 4 close the order.
StatusCodes == {0, 1, 3}
ClosedCodes == {2, 3, 4}
OpenCodes == StatusCodes \ ClosedCodes

\* What rest_account.get_balances() and rest_trading.get_open_orders() return
\* when they succeed: a balance snapshot and an open-orders snapshot.
RestBalanceSnapshots == Maps(Coins, Amounts)
RestOrderSnapshots == Maps(OrderIds, OpenCodes)

\* StateCache.update_kbar: self._kbars[symbol].append(kbar_data)
update_kbar(kb, symbol, kbar_data) ==
    [kb EXCEPT ![symbol] = Append(@, kbar_data)]

InitRecon ==
    /\ rpc = "init"
    /\ rest_balances = EmptyMap
    /\ rest_orders = EmptyMap
    /\ kbars = [sym \in Symbols |-> <<>>]
    /\ reconCalls = {}
    /\ reconOutcome = "none"

\* A comparison that always reports a discrepancy.
AlwaysDiffers(rest_snapshot, current) == TRUE

\* rest_balances != current_balances, rest_orders != current_orders
Differs(rest_snapshot, current) == rest_snapshot # current

\* A handler that lets the exception end the task.
AfterFailureExits == "done"

\* except Exception: the error is logged and the while loop goes on to its
\* next asyncio.sleep(300).
AfterFailure == "sleep"

\* A check that takes every client for an authenticated one.
AuthenticatedAlways(creds) == TRUE

\* `if self.api_key and self.api_secret`
Authenticated(creds) == creds

\* ClientManager.start awaits _sync_initial_state before any task exists:
\* without credentials it logs and returns, with them
\* rest_account.get_balances() is awaited.
SyncStart ==
    /\ rpc = "init"
    /\ IF Authenticated(hasCreds)
       THEN rpc' = "sync_balances" /\ reconOutcome' = "syncing"
       ELSE rpc' = "sleep" /\ reconOutcome' = "sync_skipped"
    /\ UNCHANGED <<rest_balances, rest_orders, kbars, reconCalls, balances,
                   orders>>
    /\ UNCHANGED notRecon

\* _sync_initial_state: rest_account.get_balances() returns;
\* rest_trading.get_open_orders() is awaited.
SyncBalancesOk ==
    /\ rpc = "sync_balances"
    /\ \E snap \in RestBalanceSnapshots : rest_balances' = snap
    /\ rpc' = "sync_orders"
    /\ UNCHANGED <<rest_orders, kbars, reconCalls, reconOutcome, balances, orders>>
    /\ UNCHANGED notRecon

\* _sync_initial_state: rest_trading.get_open_orders() returns; both
\* snapshots (an empty one as {}) are written with set_balances and
\* set_orders, and start() goes on to create the tasks.
SyncOrdersOk ==
    /\ rpc = "sync_orders"
    /\ \E snap \in RestOrderSnapshots : rest_orders' = snap
    /\ balances' = set_balances(balances, rest_balances)
    /\ orders' = set_orders(orders, rest_orders')
    /\ reconCalls' = {"set_balances", "set_orders"}
    /\ rpc' = "sleep"
    /\ reconOutcome' = "synced"
    /\ UNCHANGED <<rest_balances, kbars>>
    /\ UNCHANGED notRecon

\* A start() that the failure of its initial sync ends.
AfterSyncFailureStartFails == "done"

\* start() after _sync_initial_state caught the failure: the stream client
\* task, the watchdog and the reconciliation task are created, and the
\* reconciliation loop is at its first sleep.
AfterSyncFailure == "sleep"

\* _sync_initial_state: either fetch raises; `except Exception` logs and
\* start() goes on with the cache as it was.
SyncFails ==
    /\ rpc \in {"sync_balances", "sync_orders"}
    /\ rpc' = AfterSyncFailure
    /\ reconOutcome' = "sync_failed"
    /\ UNCHANGED <<rest_balances, rest_orders, kbars, reconCalls, balances, orders>>
    /\ UNCHANGED notRecon

\* The stream client task exists, so pushes can arrive: start() is past
\* _sync_initial_state and stop() has not cancelled the tasks.
PushesArrive == rpc \in {"sleep", "fetch_balances", "fetch_orders"}

\* asyncio.sleep(300) returns with _running still set: without credentials
\* the cycle is skipped, with them rest_account.get_balances() is awaited.
ReconWake ==
    /\ rpc = "sleep"
    /\ reconCalls' = {}
    /\ IF Authenticated(hasCreds)
       THEN rpc' = "fetch_balances" /\ reconOutcome' = "running"
       ELSE rpc' = "sleep" /\ reconOutcome' = "skipped"
    /\ UNCHANGED <<rest_balances, rest_orders, kbars, balances, orders>>
    /\ UNCHANGED notRecon

\* rest_account.get_balances() returns; rest_trading.get_open_orders() is
\* awaited.
FetchBalancesOk ==
    /\ rpc = "fetch_balances"
    /\ \E snap \in RestBalanceSnapshots : rest_balances' = snap
    /\ rpc' = "fetch_orders"
    /\ UNCHANGED <<rest_orders, kbars, reconCalls, reconOutcome, balances, orders>>
    /\ UNCHANGED notRecon

\* Either fetch raises: nothing after it in the try block runs.
FetchFails ==
    /\ rpc \in {"fetch_balances", "fetch_orders"}
    /\ rpc' = AfterFailure
    /\ reconOutcome' = "failed"
    /\ UNCHANGED <<rest_balances, rest_orders, kbars, reconCalls, balances, orders>>
    /\ UNCHANGED notRecon

\* rest_trading.get_open_orders() returns.  The rest of the cycle has no
\* suspension point (no StateCache body awaits, so its lock is never held
\* across one): both views are read, each is compared with its snapshot and
\* overwritten on a difference, and the loop is back at its sleep.
FetchOrdersOk ==
    /\ rpc = "fetch_orders"
    /\ \E snap \in RestOrderSnapshots : rest_orders' = snap
    /\ LET current_balances == get_balances(balances)
           current_orders == get_orders(orders)
           wb == Differs(rest_balances, current_balances)
           wo == Differs(rest_orders', current_orders)
       IN /\ balances' = IF wb THEN set_balances(balances, rest_balances) ELSE balances
          /\ orders' = IF wo THEN set_orders(orders, rest_orders') ELSE orders
          /\ reconCalls' = (IF wb THEN {"set_balances"} ELSE {})
                           \cup (IF wo THEN {"set_orders"} ELSE {})
    /\ rpc' = "sleep"
    /\ reconOutcome' = "complete"
    /\ UNCHANGED <<rest_balances, kbars>>
    /\ UNCHANGED notRecon

\* ClientManager.stop: _running is cleared and the task is cancelled at the
\* await it is suspended in.
ReconCancelled ==
    /\ rpc \in {"sleep", "fetch_balances", "fetch_orders"}
    /\ rpc' = "cancelled"
    /\ UNCHANGED <<rest_balances, rest_orders, kbars, reconCalls, reconOutcome,
                   balances, orders>>
    /\ UNCHANGED notRecon

\* _on_asset_update_from_ws: update_balances(asset_data)
PushAsset ==
    /\ PushesArrive
    /\ \E coin \in Coins, amount \in Amounts :
          balances' = update_balances(balances, [c \in {coin} |-> amount])
    /\ UNCHANGED <<orders, reconVars>>
    /\ UNCHANGED notRecon

\* _on_order_update_from_ws: status 2, 3 or 4 closes the order, any other
\* status stores the message under its uuid.
PushOrder ==
    /\ PushesArrive
    /\ \E order_id \in OrderIds, status_code \in StatusCodes :
          orders' = IF status_code \in ClosedCodes
                    THEN close_order(orders, order_id)
                    ELSE update_order(orders, order_id, status_code)
    /\ UNCHANGED <<balances, reconVars>>
    /\ UNCHANGED notRecon

\* _on_kbar_update_from_ws: update_kbar(symbol, kbar_message)
PushKbar ==
    /\ PushesArrive
    /\ \E sym \in Symbols :
          /\ Len(kbars[sym]) < MaxKbars
          /\ kbars' = update_kbar(kbars, sym, [pair |-> sym, t |-> 1])
    /\ UNCHANGED <<rpc, rest_balances, rest_orders, reconCalls, reconOutcome,
                   balances, orders>>
    /\ UNCHANGED notRecon

NextRecon ==
    \/ SyncStart
    \/ SyncBalancesOk
    \/ SyncOrdersOk
    \/ SyncFails
    \/ ReconWake
    \/ FetchBalancesOk
    \/ FetchFails
    \/ FetchOrdersOk
    \/ ReconCancelled
    \/ PushAsset
    \/ PushOrder
    \/ PushKbar

\* ------------------------------------------- ClientManager push handlers
\* LBank order status per _on_order_update_from_ws: 0 unsettled, 1 partially
\* filled, 2 fully filled, 3 cancelled, 4 partially filled and cancelled.
PushStatusCodes == 0..4
\* The uuid of an order-update frame; "" stands for a frame without one.
PushUuids == OrderIds \cup {""}
OpenTimes == 1..MaxOpenTime

InitPush == lastStatus = [id \in OrderIds |-> {}]

\* The message _handle_kbar_data passes on: {"pair": pair, **kbar_data}
KbarMessage(pair, t) == [pair |-> pair, t |-> t]

\* _on_kbar_update_from_ws: `if symbol:` update_kbar(symbol, kbar_message)
on_kbar_update_from_ws(kb, kbar_message) ==
    IF kbar_message.pair # ""
    THEN update_kbar(kb, kbar_message.pair, kbar_message)
    ELSE kb

\* StateCache.get_kbars / ClientManager.get_cached_kbars:
\* list(self._kbars.get(symbol, []))
get_cached_kbars(kb, symbol) == [i \in 1..Len(kb[symbol]) |-> kb[symbol][i]]

\* A handler that stores every update, whatever its status.
on_order_update_always_stores(o, order_id, status_code) ==
    IF order_id = "" THEN o ELSE update_order(o, order_id, status_code)

\* _on_order_update_from_ws: without a uuid the update is dropped; status 2,
\* 3 or 4 closes the order; any other status stores the update under its
\* uuid.
on_order_update_from_ws(o, order_id, status_code) ==
    IF order_id = "" THEN o
    ELSE IF status_code \in ClosedCodes
         THEN close_order(o, order_id)
         ELSE update_order(o, order_id, status_code)

\* ClientManager.get_cached_open_orders() without a symbol filter.
get_cached_open_orders(o) == get_orders(o)

\* A kbar frame for a pair reaches _handle_kbar_data and, through the
\* registered callback, _on_kbar_update_from_ws.
KbarFrame ==
    \E sym \in Symbols, t \in OpenTimes :
        /\ Len(kbars[sym]) < MaxPushedBars
        /\ kbars' = on_kbar_update_from_ws(kbars, KbarMessage(sym, t))
        /\ UNCHANGED <<orders, lastStatus>>
        /\ UNCHANGED notPush

\* An orderUpdate frame reaches _handle_order_update_data and, through the
\* registered callback, _on_order_update_from_ws.
OrderUpdateFrame ==
    \E order_id \in PushUuids, status_code \in PushStatusCodes :
        /\ orders' = on_order_update_from_ws(orders, order_id, status_code)
        /\ lastStatus' = IF order_id \in OrderIds
                         THEN [lastStatus EXCEPT ![order_id] = {status_code}]
                         ELSE lastStatus
        /\ UNCHANGED kbars
        /\ UNCHANGED notPush

NextPush ==
    \/ KbarFrame
    \/ OrderUpdateFrame

\* ------------------------------------ ws_handler.WSConnectionManager.connect
max_reconnect_attempts == 10
initial_reconnect_delay == 5
max_reconnect_delay == 300

\* Delays slept are counted in 1/Scale seconds, so that a jitter of
\* delay * 0.1 * (j / JitterSteps) seconds is the integer delay * j.
Scale == 10 * JitterSteps

Min(a, b) == IF a <= b THEN a ELSE b

\* The exponential delay without its ceiling.
BackoffDelayUncapped(attempts) == initial_reconnect_delay * 2^(attempts - 1)

\* delay = min(initial_reconnect_delay * 2 ** (reconnect_attempts - 1),
\*             max_reconnect_delay)
BackoffDelay(attempts) ==
    Min(initial_reconnect_delay * 2^(attempts - 1), max_reconnect_delay)

\* jitter = delay * 0.1 * random.random(), with random.random() = j / JitterSteps
Jitter(d, j) == d * j

\* actual_delay = delay + jitter
ActualDelay(d, j) == d * Scale + Jitter(d, j)

InitBackoff ==
    /\ wsh_pc = "idle"
    /\ wsh_connection = "none"
    /\ wsh_keep_running = TRUE
    /\ wsh_reconnect_attempts = 0
    /\ delay = 0
    /\ actual_delay = 0

\* connect() is entered (by ensure_connection when the connection is None or
\* closed, or by a caller): _keep_running is set; reconnect_attempts is not
\* touched.
WshConnectCall ==
    /\ wsh_pc \in {"idle", "returned_false", "raised"}
    /\ wsh_connection # "open"
    /\ wsh_keep_running' = TRUE
    /\ wsh_pc' = "connecting"
    /\ UNCHANGED <<wsh_connection, wsh_reconnect_attempts, delay, actual_delay>>
    /\ UNCHANGED notBackoff

\* A connect that leaves the counter where the failures took it.
AttemptsAfterConnectKept(attempts) == attempts

\* self.reconnect_attempts = 0  # Reset on successful connection
AttemptsAfterConnect(attempts) == 0

\* A limit that allows one more wait.
AttemptsExhaustedLate(attempts) == attempts > max_reconnect_attempts + 1

\* if self.reconnect_attempts > self.max_reconnect_attempts
AttemptsExhausted(attempts) == attempts > max_reconnect_attempts

\* websockets.connect returns: reconnect_attempts is reset, connect returns
\* True.
WshConnectOk ==
    /\ wsh_pc = "connecting"
    /\ wsh_connection' = "open"
    /\ wsh_reconnect_attempts' = AttemptsAfterConnect(wsh_reconnect_attempts)
    /\ wsh_pc' = "connected"
    /\ delay' = 0
    /\ actual_delay' = 0
    /\ UNCHANGED wsh_keep_running
    /\ UNCHANGED notBackoff

\* websockets.connect raises InvalidURI: _keep_running is cleared and the
\* exception is re-raised.
WshInvalidURI ==
    /\ wsh_pc = "connecting"
    /\ wsh_keep_running' = FALSE
    /\ wsh_pc' = "raised"
    /\ UNCHANGED <<wsh_connection, wsh_reconnect_attempts, delay, actual_delay>>
    /\ UNCHANGED notBackoff

\* websockets.connect raises ConnectionClosedError, ConnectionClosedOK,
\* ConnectionRefusedError or OSError.  With _keep_running cleared the loop
\* is left; otherwise the attempt is counted, connect gives up past
\* max_reconnect_attempts, and else sleeps the backoff delay plus jitter.
WshTransientFailure ==
    /\ wsh_pc = "connecting"
    /\ IF ~wsh_keep_running
       THEN /\ wsh_pc' = "returned_false"
            /\ UNCHANGED <<wsh_keep_running, wsh_reconnect_attempts, delay,
                           actual_delay>>
       ELSE /\ wsh_reconnect_attempts < max_reconnect_attempts + 1 + MaxOverrun
            /\ wsh_reconnect_attempts' = wsh_reconnect_attempts + 1
            /\ IF AttemptsExhausted(wsh_reconnect_attempts')
               THEN /\ wsh_keep_running' = FALSE
                    /\ wsh_pc' = "returned_false"
                    /\ UNCHANGED <<delay, actual_delay>>
               ELSE /\ delay' = BackoffDelay(wsh_reconnect_attempts')
                    /\ \E j \in 0..(JitterSteps - 1) :
                          actual_delay' = ActualDelay(delay', j)
                    /\ wsh_pc' = "sleeping"
                    /\ UNCHANGED wsh_keep_running
    /\ UNCHANGED wsh_connection
    /\ UNCHANGED notBackoff

\* websockets.connect raises anything else: initial_reconnect_delay is
\* slept; reconnect_attempts is not touched.
WshUnexpectedFailure ==
    /\ wsh_pc = "connecting"
    /\ actual_delay' = initial_reconnect_delay * Scale
    /\ wsh_pc' = "sleeping"
    /\ UNCHANGED <<wsh_connection, wsh_keep_running, wsh_reconnect_attempts, delay>>
    /\ UNCHANGED notBackoff

\* asyncio.sleep returns: the while condition is read again.
WshSleepDone ==
    /\ wsh_pc = "sleeping"
    /\ wsh_pc' = IF wsh_keep_running THEN "connecting" ELSE "returned_false"
    /\ UNCHANGED <<wsh_connection, wsh_keep_running, wsh_reconnect_attempts,
                   delay, actual_delay>>
    /\ UNCHANGED notBackoff

\* The open connection is lost.
WshConnectionLost ==
    /\ wsh_pc = "connected"
    /\ wsh_connection = "open"
    /\ wsh_connection' = "closed"
    /\ wsh_pc' = "idle"
    /\ UNCHANGED <<wsh_keep_running, wsh_reconnect_attempts, delay, actual_delay>>
    /\ UNCHANGED notBackoff

\* stop(): _keep_running is cleared, an open connection is closed, and
\* self.connection is None.
WshStop ==
    /\ wsh_keep_running
    /\ wsh_keep_running' = FALSE
    /\ wsh_connection' = "none"
    /\ wsh_pc' = IF wsh_pc = "connected" THEN "idle" ELSE wsh_pc
    /\ UNCHANGED <<wsh_reconnect_attempts, delay, actual_delay>>
    /\ UNCHANGED notBackoff

NextBackoff ==
    \/ WshConnectCall
    \/ WshConnectOk
    \/ WshInvalidURI
    \/ WshTransientFailure
    \/ WshUnexpectedFailure
    \/ WshSleepDone
    \/ WshConnectionLost
    \/ WshStop

\* ------------------------------------------------------ SubscriptionManager
\* The subscription pass ("subs") and _maintain_subscribe_key ("maint"), with
\* credentials configured and the connection open.
KeyTasks == {"subs", "maint"}
PrivatePlan == <<"orderUpdate", "assetUpdate">>
NoKey == 0

InitKey ==
    /\ subscribeKey = NoKey
    /\ minted = 0
    /\ kpc = [t \in KeyTasks |-> "idle"]
    /\ kArg = [t \in KeyTasks |-> NoKey]
    /\ kVia = [t \in KeyTasks |-> "none"]
    /\ kRes = [t \in KeyTasks |-> "none"]
    /\ privIdx = 1
    /\ privSent = {}
    /\ rotatedOut = {}

\* A failed rotation that keeps the key it held.
KeyAfterObtainKeepsOld(old, new_key) == IF old # NoKey THEN old ELSE new_key

\* get_subscribe_key on a successful response: self.subscribeKey = new_key
KeyAfterObtain(old, new_key) == new_key

\* A private subscribe message built without the held key.
PrivateMessageUnkeyed(kind, key) == [kind |-> kind, key |-> NoKey]

\* subscribe_order_updates / subscribe_asset_updates once the key is ensured:
\* the message carries self.subscribeKey as it is when the message is built.
PrivateMessage(kind, key) == [kind |-> kind, key |-> key]

\* The subscription pass moves to its next private subscription.
NextPriv(t) == IF t = "subs" THEN privIdx + 1 ELSE privIdx
PcAfterCall(t) ==
    IF t = "subs" /\ privIdx = Len(PrivatePlan) THEN "done" ELSE "idle"

\* _ensure_key_for_private_subscription (subs) or the maintenance loop waking
\* from its 20 h sleep (maint): with a key held, extend_subscribe_key_validity
\* posts a refresh request carrying it; without one, the subscription pass
\* calls get_subscribe_key and the maintenance loop does nothing.
KeyCall(t) ==
    /\ hasCreds
    /\ kpc[t] = "idle"
    /\ t = "subs" => privIdx <= Len(PrivatePlan)
    /\ IF subscribeKey # NoKey
       THEN /\ kpc' = [kpc EXCEPT ![t] = "refreshing"]
            /\ kArg' = [kArg EXCEPT ![t] = subscribeKey]
            /\ UNCHANGED kVia
       ELSE /\ t = "subs"
            /\ kpc' = [kpc EXCEPT ![t] = "obtaining"]
            /\ kVia' = [kVia EXCEPT ![t] = "direct"]
            /\ UNCHANGED kArg
    /\ UNCHANGED <<subscribeKey, minted, kRes, privIdx, privSent, rotatedOut>>
    /\ UNCHANGED notKey

\* extend_subscribe_key_validity: the refresh request succeeded; the call
\* returns True and the subscription pass sends its message.
RefreshOk(t) ==
    /\ kpc[t] = "refreshing"
    /\ kRes' = [kRes EXCEPT ![t] = "true"]
    /\ privSent' = IF t = "subs"
                   THEN privSent \cup {PrivateMessage(PrivatePlan[privIdx], subscribeKey)}
                   ELSE privSent
    /\ privIdx' = NextPriv(t)
    /\ kpc' = [kpc EXCEPT ![t] = PcAfterCall(t)]
    /\ UNCHANGED <<subscribeKey, minted, kArg, kVia, rotatedOut>>
    /\ UNCHANGED notKey

\* extend_subscribe_key_validity: the refresh request failed
\* (SubscriptionError); get_subscribe_key is called at once.
RefreshFails(t) ==
    /\ kpc[t] = "refreshing"
    /\ kpc' = [kpc EXCEPT ![t] = "obtaining"]
    /\ kVia' = [kVia EXCEPT ![t] = "rotation"]
    /\ UNCHANGED <<subscribeKey, minted, kArg, kRes, privIdx, privSent, rotatedOut>>
    /\ UNCHANGED notKey

\* get_subscribe_key: the exchange minted a new key; it is stored and the
\* call returns True; the subscription pass sends its message.
ObtainOk(t) ==
    /\ kpc[t] = "obtaining"
    /\ minted < MaxTokens
    /\ minted' = minted + 1
    /\ subscribeKey' = KeyAfterObtain(subscribeKey, minted + 1)
    /\ kRes' = [kRes EXCEPT ![t] = "true"]
    /\ rotatedOut' = IF kVia[t] = "rotation" THEN rotatedOut \cup {kArg[t]}
                     ELSE rotatedOut
    /\ privSent' = IF t = "subs"
                   THEN privSent \cup {PrivateMessage(PrivatePlan[privIdx], subscribeKey')}
                   ELSE privSent
    /\ privIdx' = NextPriv(t)
    /\ kpc' = [kpc EXCEPT ![t] = PcAfterCall(t)]
    /\ UNCHANGED <<kArg, kVia>>
    /\ UNCHANGED notKey

\* get_subscribe_key: the request failed or carried no key; the held key is
\* cleared and the call returns False; no message is sent.
ObtainFails(t) ==
    /\ kpc[t] = "obtaining"
    /\ subscribeKey' = NoKey
    /\ kRes' = [kRes EXCEPT ![t] = "false"]
    /\ privIdx' = NextPriv(t)
    /\ kpc' = [kpc EXCEPT ![t] = PcAfterCall(t)]
    /\ UNCHANGED <<minted, kArg, kVia, privSent, rotatedOut>>
    /\ UNCHANGED notKey

KeyRequest == \E t \in KeyTasks : KeyCall(t)
KeyRefreshOk == \E t \in KeyTasks : RefreshOk(t)
KeyRefreshFails == \E t \in KeyTasks : RefreshFails(t)
KeyObtainOk == \E t \in KeyTasks : ObtainOk(t)
KeyObtainFails == \E t \in KeyTasks : ObtainFails(t)

NextKey ==
    \/ KeyRequest
    \/ KeyRefreshOk
    \/ KeyRefreshFails
    \/ KeyObtainOk
    \/ KeyObtainFails

\* _maintain_subscribe_key: await asyncio.sleep(20 * 60 * 60) precedes every
\* refresh of the loop, while each await of the subscription pass started
\* with it is a key request bounded by the 10 s client timeout: the loop's
\* first wake finds the pass finished.
MaintenanceAwake == kpc["subs"] = "done"

\* The subscription pass ensures the key for its next private subscription.
PassEnsureKey == KeyCall("subs")

\* The maintenance loop wakes and refreshes the held key.
MaintenanceWakes == MaintenanceAwake /\ KeyCall("maint")

\* WebSocketClient.stop: every task still running is cancelled at the await
\* it is suspended in, and the tasks are gathered.
KeyTasksCancelled ==
    /\ hasCreds
    /\ kpc["maint"] # "cancelled"
    /\ kpc' = [t \in KeyTasks |-> IF kpc[t] = "done" THEN "done" ELSE "cancelled"]
    /\ UNCHANGED <<subscribeKey, minted, kArg, kVia, kRes, privIdx, privSent,
                   rotatedOut>>
    /\ UNCHANGED notKey

\* delete_subscribe_key, called by stop() once the tasks are gathered: the
\* local key is cleared whether the exchange accepts the request or not.
delete_subscribe_key ==
    /\ kpc["maint"] = "cancelled"
    /\ subscribeKey # NoKey
    /\ subscribeKey' = NoKey
    /\ UNCHANGED <<minted, kpc, kArg, kVia, kRes, privIdx, privSent, rotatedOut>>
    /\ UNCHANGED notKey

NextPass ==
    \/ PassEnsureKey
    \/ MaintenanceWakes
    \/ KeyTasksCancelled
    \/ delete_subscribe_key
    \/ KeyRefreshOk
    \/ KeyRefreshFails
    \/ KeyObtainOk
    \/ KeyObtainFails

\* ------------------------------------------- StateCache, object identity
\* A dict maps keys to record objects; the records live in the heap.
Refs == 1..MaxRefs

InitAlias ==
    /\ heap = EmptyMap
    /\ ordersRef = EmptyMap
    /\ balancesRef = EmptyMap
    /\ retOrders = EmptyMap
    /\ retBalances = EmptyMap
    /\ aliasLast = "get"

\* The value a dict of record objects denotes.
Deref(d) == [k \in DOMAIN d |-> heap[d[k]]]

\* dict.copy(): a new dict holding the same record objects.
ShallowCopy(d) == [k \in DOMAIN d |-> d[k]]

\* A new object with content v.
Alloc(r, v) == [k \in DOMAIN heap \cup {r} |-> IF k = r THEN v ELSE heap[k]]
NextRef == Cardinality(DOMAIN heap) + 1

\* update_order(order_id, order_data): the dict the caller passes (a freshly
\* decoded frame) is stored as it is.
ObjUpdateOrder(id, v) ==
    /\ NextRef \in Refs
    /\ heap' = Alloc(NextRef, v)
    /\ ordersRef' = update_order(ordersRef, id, NextRef)
    /\ aliasLast' = "mutator"
    /\ UNCHANGED <<balancesRef, retOrders, retBalances>>
    /\ UNCHANGED notAlias

\* app_utility.StateCache.update_balances: a missing asset gets a new empty
\* record, then the asset's record is updated in place.
ObjUpdateBalances(coin, v) ==
    /\ IF coin \in DOMAIN balancesRef
       THEN /\ heap' = [heap EXCEPT ![balancesRef[coin]] = v]
            /\ UNCHANGED balancesRef
       ELSE /\ NextRef \in Refs
            /\ heap' = Alloc(NextRef, v)
            /\ balancesRef' = update_order(balancesRef, coin, NextRef)
    /\ aliasLast' = "mutator"
    /\ UNCHANGED <<ordersRef, retOrders, retBalances>>
    /\ UNCHANGED notAlias

\* get_orders(): return self._orders.copy()
ObjGetOrders ==
    /\ retOrders' = ShallowCopy(ordersRef)
    /\ aliasLast' = "get"
    /\ UNCHANGED <<heap, ordersRef, balancesRef, retBalances>>
    /\ UNCHANGED notAlias

\* get_balances(): return self._balances.copy()
ObjGetBalances ==
    /\ retBalances' = ShallowCopy(balancesRef)
    /\ aliasLast' = "get"
    /\ UNCHANGED <<heap, ordersRef, balancesRef, retOrders>>
    /\ UNCHANGED notAlias

\* The caller changes a record inside a value an accessor returned.
CallerWrites(ret, k, v) ==
    /\ k \in DOMAIN ret
    /\ heap[ret[k]] # v
    /\ heap' = [heap EXCEPT ![ret[k]] = v]
    /\ aliasLast' = "caller"
    /\ UNCHANGED <<ordersRef, balancesRef, retOrders, retBalances>>
    /\ UNCHANGED notAlias

\* The caller removes an entry of the dict an accessor returned.
CallerDrops(k) ==
    /\ k \in DOMAIN retOrders
    /\ retOrders' = close_order(retOrders, k)
    /\ aliasLast' = "caller"
    /\ UNCHANGED <<heap, ordersRef, balancesRef, retBalances>>
    /\ UNCHANGED notAlias

ObjMutate ==
    \/ \E id \in OrderIds, v \in Amounts : ObjUpdateOrder(id, v)
    \/ \E coin \in Coins, v \in Amounts : ObjUpdateBalances(coin, v)
ObjGet == ObjGetOrders \/ ObjGetBalances
ObjCaller ==
    \/ \E k \in OrderIds, v \in Amounts : CallerWrites(retOrders, k, v)
    \/ \E k \in Coins, v \in Amounts : CallerWrites(retBalances, k, v)
    \/ \E k \in OrderIds : CallerDrops(k)

NextAlias ==
    \/ ObjMutate
    \/ ObjGet
    \/ ObjCaller

\* ----------------------------------------------- ClientManager.place_order
OrderSides == {"buy", "sell"}
OrderTypes == {"limit", "market"}
\* A price of 0 stands for price=None.
OrderPrices == {0, 1}
PlaceOrderArgs ==
    [symbol : Symbols, side : OrderSides, ord_type : OrderTypes,
     quantity : {1}, price : OrderPrices]

\* How rest_trading.place_order ends: it returns the exchange's response or
\* raises a typed API error or a network error.
RestPlaceOrderOutcomes == {"ok", "api_error", "network_error"}

\* The response rest_trading.place_order returns for a call.
RestPlaceOrderResult(call) == [order_id |-> "123", order |-> call]

NoRestCall == [symbol |-> "", side |-> "", quantity |-> 0, price |-> 0]

InitOrder ==
    /\ opc = "idle"
    /\ oArgs = CHOOSE args \in PlaceOrderArgs : TRUE
    /\ placeCalls = 0
    /\ restCall = NoRestCall
    /\ restOutcome = "none"
    /\ oReturn = [kind |-> "none"]

\* place_order: rest_trading.place_order(symbol=symbol, side=side,
\* quantity=quantity, price=price); ord_type is not passed on.
ForwardedOrder(args) ==
    [symbol |-> args.symbol, side |-> args.side, quantity |-> args.quantity,
     price |-> args.price]

\* A place_order that stores the new order in the StateCache at once.
OrdersAfterPlaceOrderStoresIt(o, result) == update_order(o, "o1", 0)

\* place_order: the result is logged and returned; no StateCache call.
OrdersAfterPlaceOrder(o, result) == o

\* place_order: `except Exception` logs the error and returns None.
ReturnOnRestFailure(outcome) == [kind |-> "returned", value |-> "None"]

\* place_order is called.  Without credentials it logs and returns None;
\* with them rest_trading.place_order is awaited.
PlaceOrderCall ==
    /\ opc = "idle"
    /\ placeCalls < MaxPlaceOrders
    /\ placeCalls' = placeCalls + 1
    /\ restOutcome' = "none"
    /\ \E args \in PlaceOrderArgs :
          /\ oArgs' = args
          /\ IF Authenticated(hasCreds)
             THEN /\ opc' = "awaiting_rest"
                  /\ restCall' = ForwardedOrder(args)
                  /\ oReturn' = [kind |-> "pending"]
             ELSE /\ opc' = "idle"
                  /\ restCall' = NoRestCall
                  /\ oReturn' = [kind |-> "returned", value |-> "None"]
    /\ UNCHANGED <<orders, kbars>>
    /\ UNCHANGED notOrder

\* rest_trading.place_order returns or raises, and place_order returns.
PlaceOrderRestEnds ==
    /\ opc = "awaiting_rest"
    /\ opc' = "idle"
    /\ \E outcome \in RestPlaceOrderOutcomes :
          /\ restOutcome' = outcome
          /\ IF outcome = "ok"
             THEN /\ oReturn' = [kind |-> "returned",
                                 value |-> RestPlaceOrderResult(restCall)]
                  /\ orders' = OrdersAfterPlaceOrder(orders,
                                   RestPlaceOrderResult(restCall))
             ELSE /\ oReturn' = ReturnOnRestFailure(outcome)
                  /\ UNCHANGED orders
    /\ UNCHANGED <<oArgs, placeCalls, restCall, kbars>>
    /\ UNCHANGED notOrder

\* While place_order awaits, and between calls, the exchange's pushes are
\* handled.
NextOrder ==
    \/ PlaceOrderCall
    \/ PlaceOrderRestEnds
    \/ OrderUpdateFrame
    \/ KbarFrame

\* ------------------------------------------ ClientManager cached-state readers
\* None, returned by a fetch in place of a snapshot dict, as it is held in
\* rest_balances / rest_orders and, once stored, in the StateCache.
NoneBalances == [k \in {"<None>"} |-> "<None>"]
NoneOrders == [k \in {"<None>"} |-> 0]

IsDict(x) == "<None>" \notin DOMAIN x

Readers == {"get_cached_balances", "get_cached_open_orders", "get_cached_kbars"}

InitRead == readResult = [reader |-> "none", outcome |-> "none"]

\* _periodic_reconciliation: rest_account.get_balances() returns None.
FetchBalancesUnusual ==
    /\ rpc = "fetch_balances"
    /\ rest_balances' = NoneBalances
    /\ rpc' = "fetch_orders"
    /\ UNCHANGED <<rest_orders, kbars, reconCalls, reconOutcome, balances, orders>>
    /\ UNCHANGED notRecon

\* _periodic_reconciliation: rest_trading.get_open_orders() returns None.
\* None != current_orders, so set_orders(None) is called; the balances are
\* compared and written as in any cycle.
FetchOrdersUnusual ==
    /\ rpc = "fetch_orders"
    /\ IsDict(balances) /\ IsDict(orders)
    /\ rest_orders' = NoneOrders
    /\ LET wb == Differs(rest_balances, get_balances(balances))
           wo == Differs(rest_orders', get_orders(orders))
       IN /\ balances' = IF wb THEN set_balances(balances, rest_balances) ELSE balances
          /\ orders' = IF wo THEN set_orders(orders, rest_orders') ELSE orders
          /\ reconCalls' = (IF wb THEN {"set_balances"} ELSE {})
                           \cup (IF wo THEN {"set_orders"} ELSE {})
    /\ rpc' = "sleep"
    /\ reconOutcome' = "complete"
    /\ UNCHANGED <<rest_balances, kbars>>
    /\ UNCHANGED notRecon

\* _periodic_reconciliation over a StateCache holding None: the second fetch
\* returns, and state.get_balances() or state.get_orders() raises
\* AttributeError on None.copy(); `except Exception` logs it.
FetchOrdersThenReadRaises ==
    /\ rpc = "fetch_orders"
    /\ ~(IsDict(balances) /\ IsDict(orders))
    /\ \E snap \in RestOrderSnapshots \cup {NoneOrders} : rest_orders' = snap
    /\ rpc' = AfterFailure
    /\ reconOutcome' = "failed"
    /\ UNCHANGED <<rest_balances, kbars, reconCalls, balances, orders>>
    /\ UNCHANGED notRecon

\* get_cached_balances / get_cached_open_orders: self._balances.copy() /
\* self._orders.copy() under the lock, which raises AttributeError when the
\* attribute holds None; get_cached_kbars: list(self._kbars.get(symbol, [])).
ReaderOutcome(reader, b, o) ==
    IF \/ reader = "get_cached_balances" /\ ~IsDict(b)
       \/ reader = "get_cached_open_orders" /\ ~IsDict(o)
    THEN "raised" ELSE "returned"

\* A reader is called: no await but the acquisition of the StateCache lock,
\* which no task holds across a suspension.
ReaderCall ==
    /\ \E reader \in Readers :
          readResult' = [reader |-> reader,
                         outcome |-> ReaderOutcome(reader, balances, orders)]
    /\ UNCHANGED notRead

\* The initial sync, the reconciliation cycles with usual and unusual fetch
\* results, the push handlers and the readers.  A push for a dict that holds
\* None raises inside its handler and changes nothing.
NextRead ==
    \/ SyncStart
    \/ SyncBalancesOk
    \/ SyncOrdersOk
    \/ SyncFails
    \/ ReconWake
    \/ FetchBalancesOk
    \/ FetchBalancesUnusual
    \/ FetchFails
    \/ (IsDict(balances) /\ IsDict(orders) /\ FetchOrdersOk)
    \/ FetchOrdersUnusual
    \/ FetchOrdersThenReadRaises
    \/ ReconCancelled
    \/ (IsDict(balances) /\ PushAsset)
    \/ (IsDict(orders) /\ PushOrder)
    \/ PushKbar
    \/ ReaderCall

\* ------------------------------- MessageProcessor.process_incoming_message
\* A decoded frame: a dict whose fields are "absent" or hold one of the values
\* the branches tell apart.  records: "empty" is [], "rows" matches the
\* columns, "ragged" does not.  type: "" is a falsy value, "kbar" has a
\* registered handler, "depth" has none, "<list>" is a non-empty JSON array
\* (truthy and unhashable).  callback_raises: the registered handler or the
\* historical callback raises on this frame.
Frames ==
    [status : {"absent", "error", "ok"},
     action : {"absent", "ping", "request", "subscribe"},
     request : {"absent", "kbar", "depth"},
     records : {"absent", "empty", "rows", "ragged"},
     columns : {"absent", "present"},
     type : {"absent", "", "kbar", "depth", "<list>"},
     callback_raises : BOOLEAN]

NoFrame ==
    [status |-> "absent", action |-> "absent", request |-> "absent",
     records |-> "absent", columns |-> "absent", type |-> "absent",
     callback_raises |-> FALSE]

InitFrames ==
    /\ frame = NoFrame
    /\ branches = {}
    /\ effect = "none"
    /\ procRaised = FALSE

\* The tests of process_incoming_message, in the order of its chain.
BranchTests(f) ==
    << <<"status", f.status # "absent">>,
       <<"action", f.action # "absent">>,
       <<"request_response", f.request # "absent" /\ f.records # "absent">>,
       <<"data", f.type # "absent">>,
       <<"unknown", TRUE>> >>

\* if / elif / elif / elif / else: the first branch whose test holds.
TakenBranches(f) ==
    LET first == CHOOSE i \in 1..5 :
                    /\ BranchTests(f)[i][2]
                    /\ \A j \in 1..(i - 1) : ~BranchTests(f)[j][2]
    IN {BranchTests(f)[first][1]}

\* What the entered branch does: _handle_status_message,
\* _handle_action_message, _handle_request_response (with
\* _handle_kbar_request_response), process_data_message, or the warning of
\* the else branch.
BranchEffect(branch, f) ==
    CASE branch = "status" ->
            IF f.status = "error" THEN "error_status_logged" ELSE "status_logged"
      [] branch = "action" ->
            IF f.action = "ping" THEN "ping_logged" ELSE "action_logged"
      [] branch = "request_response" ->
            IF f.request # "kbar" THEN "request_response_logged"
            ELSE IF f.columns = "absent" THEN "invalid_kbar_response_logged"
            ELSE IF f.records = "ragged" THEN "dataframe_error_logged"
            ELSE IF f.records = "empty" THEN "empty_response_logged"
            ELSE IF f.callback_raises THEN "unexpected_error_logged"
            ELSE "historical_delivered"
      [] branch = "data" ->
            IF f.type = "" THEN "missing_type_logged"
            ELSE IF f.type = "<list>" THEN "type_error"
            ELSE IF f.type # "kbar" THEN "no_handler_logged"
            ELSE IF f.callback_raises THEN "handler_error_logged"
            ELSE "dispatched"
      [] OTHER -> "unhandled_logged"

\* An exception leaves process_incoming_message: the handler's is caught in
\* process_data_message, the DataFrame's and the historical callback's in
\* _handle_kbar_request_response; self.handlers.get(message_type) stands
\* outside the try and raises TypeError on an unhashable key.
Escapes(branch, f) == branch = "data" /\ f.type = "<list>"

\* process_incoming_message(frame) runs to its end.
ProcessFrame ==
    /\ effect = "none"
    /\ \E f \in Frames :
          /\ frame' = f
          /\ branches' = TakenBranches(f)
          /\ effect' = BranchEffect(CHOOSE b \in TakenBranches(f) : TRUE, f)
          /\ procRaised' = \E b \in TakenBranches(f) : Escapes(b, f)
    /\ UNCHANGED notFrame

\* The caller's loop drops the frame and waits for the next one.
AwaitNextFrame ==
    /\ effect # "none"
    /\ frame' = NoFrame
    /\ branches' = {}
    /\ effect' = "none"
    /\ procRaised' = FALSE
    /\ UNCHANGED notFrame

NextFrames == ProcessFrame \/ AwaitNextFrame

\* -------------------------------------- ws_handler.WSConnectionManager.listen
\* The listener task is the only caller of connect(): wsh_pc = "idle" is the
\* top of its while loop, "connected" its `async for` over the connection.

\* A listener whose loop does not read the flag.
ListenLoopRunsForever(flag) == TRUE

\* while self._keep_running:
ListenLoopTest(flag) == flag

\* await self.ensure_connection(): no connection, or a closed one, and
\* connect() is entered.
ListenEnsureConnection ==
    /\ wsh_pc = "idle"
    /\ ListenLoopTest(wsh_keep_running)
    /\ WshConnectCall

\* connect() raised (InvalidURI): `except Exception` of the listen loop logs
\* and sleeps initial_reconnect_delay.  connect() returned False: there is no
\* connection to listen on and the loop sleeps initial_reconnect_delay.
ListenRecovers ==
    /\ wsh_pc \in {"raised", "returned_false"}
    /\ wsh_pc' = "listen_sleep"
    /\ UNCHANGED <<wsh_connection, wsh_keep_running, wsh_reconnect_attempts,
                   delay, actual_delay>>
    /\ UNCHANGED notBackoff

\* The sleep of the listen loop returns, back at the while.
ListenSleepDone ==
    /\ wsh_pc = "listen_sleep"
    /\ wsh_pc' = "idle"
    /\ UNCHANGED <<wsh_connection, wsh_keep_running, wsh_reconnect_attempts,
                   delay, actual_delay>>
    /\ UNCHANGED notBackoff

\* The while condition fails: "WebSocket listener loop terminated."
ListenTerminates ==
    /\ wsh_pc = "idle"
    /\ ~ListenLoopTest(wsh_keep_running)
    /\ wsh_pc' = "terminated"
    /\ UNCHANGED <<wsh_connection, wsh_keep_running, wsh_reconnect_attempts,
                   delay, actual_delay>>
    /\ UNCHANGED notBackoff

NextListen ==
    \/ ListenEnsureConnection
    \/ WshConnectOk
    \/ WshInvalidURI
    \/ WshTransientFailure
    \/ WshUnexpectedFailure
    \/ WshSleepDone
    \/ WshConnectionLost
    \/ WshStop
    \/ ListenRecovers
    \/ ListenSleepDone
    \/ ListenTerminates

\* ------------------- ws_handler.WebSocketClient: subscriptions, session key
subscriptions_to_make ==
    << [stream |-> "1min", private |-> FALSE],
       [stream |-> "depth.20", private |-> FALSE],
       [stream |-> "trade", private |-> FALSE],
       [stream |-> "orderUpdate", private |-> TRUE],
       [stream |-> "assetUpdate", private |-> TRUE] >>

NoWsKey == 0

\* The state in which start() has set _running and connect() has returned
\* True.
InitSubs ==
    /\ ws_running = TRUE
    /\ ws_conn_open = TRUE
    /\ subscribe_key_rest = NoWsKey
    /\ ws_minted = 0
    /\ mpc = "start"
    /\ refreshes = 0
    /\ last_refresh = [returned |-> "none", key |-> NoWsKey, open |-> FALSE]
    /\ pass_caller = "none"
    /\ pass_pc = "idle"
    /\ pass_idx = 1
    /\ success_all = TRUE
    /\ pass_log = <<>>
    /\ pass_result = "none"

\* _subscribe_to_configured_streams is entered by `caller`: without an
\* active connection it returns False at once; otherwise success_all = True
\* and the for loop starts.
PassEntered(caller) ==
    /\ pass_caller' = caller
    /\ pass_idx' = 1
    /\ pass_log' = <<>>
    /\ success_all' = TRUE
    /\ IF ws_conn_open
       THEN /\ pass_pc' = "loop"
            /\ pass_result' = "none"
       ELSE /\ pass_pc' = "returned"
            /\ pass_result' = "false"

\* start(): the initial subscription pass follows connect() directly.
StartSubscribes ==
    /\ mpc = "start"
    /\ pass_pc = "idle"
    /\ PassEntered("start")
    /\ mpc' = "start_pass"
    /\ UNCHANGED <<ws_running, ws_conn_open, subscribe_key_rest, ws_minted,
                   refreshes, last_refresh>>
    /\ UNCHANGED notSubs

\* A pass that gives up at the first entry that fails.
NextEntryAfterFailureAborts(idx) == Len(subscriptions_to_make) + 1

\* Both except clauses of the for loop only set success_all = False; the
\* loop goes on with the next entry.
NextEntryAfterFailure(idx) == idx + 1

\* One turn of the for loop for the entry at pass_idx, the client running.
\* subscribe_to_stream: a private entry needs the key
\* (_ensure_key_for_private_subscription: no credentials, or no key and
\* get_ws_subscribe_key fails, raise SubscriptionError) and carries
\* subscribe_key_rest as it then is; send_message raises ConnectionClosedError
\* without an open connection.
PassAttempt ==
    /\ pass_pc = "loop"
    /\ pass_idx <= Len(subscriptions_to_make)
    /\ ws_running
    /\ LET e == subscriptions_to_make[pass_idx]
           needsKey == e.private /\ hasCreds /\ subscribe_key_rest = NoWsKey
       IN \E obtained \in BOOLEAN :
             /\ obtained => (needsKey /\ ws_minted < MaxWsKeys)
             /\ LET key == IF obtained THEN ws_minted + 1 ELSE subscribe_key_rest
                    outcome ==
                        IF e.private /\ (~hasCreds \/ key = NoWsKey)
                        THEN "no_key"
                        ELSE IF ws_conn_open THEN "sent" ELSE "send_error"
                IN /\ subscribe_key_rest' = key
                   /\ ws_minted' = IF obtained THEN ws_minted + 1 ELSE ws_minted
                   /\ pass_log' = Append(pass_log,
                                    [idx |-> pass_idx, outcome |-> outcome,
                                     key |-> IF e.private THEN key ELSE NoWsKey])
                   /\ success_all' = (success_all /\ outcome = "sent")
                   /\ pass_idx' = IF outcome = "sent" THEN pass_idx + 1
                                  ELSE NextEntryAfterFailure(pass_idx)
    /\ UNCHANGED <<ws_running, ws_conn_open, mpc, refreshes, last_refresh,
                   pass_caller, pass_pc, pass_result>>
    /\ UNCHANGED notSubs

\* The for loop is over (no entry left, or `if not self._running: break`):
\* the pass returns success_all.  start() then creates its tasks, the
\* maintenance loop among them; the maintenance loop goes back to sleep.
PassReturns ==
    /\ pass_pc = "loop"
    /\ pass_idx > Len(subscriptions_to_make) \/ ~ws_running
    /\ pass_pc' = "returned"
    /\ pass_result' = IF success_all THEN "true" ELSE "false"
    /\ mpc' = IF ws_running THEN "sleep" ELSE "done"
    /\ UNCHANGED <<ws_running, ws_conn_open, subscribe_key_rest, ws_minted,
                   refreshes, last_refresh, pass_caller, pass_idx, success_all,
                   pass_log>>
    /\ UNCHANGED notSubs

\* A maintenance loop that refreshes the key and leaves the subscriptions.
ResubscribeNever(refreshed, open) == FALSE

\* if await refresh_ws_subscribe_key(): if the connection is set and not
\* closed: await self._subscribe_to_configured_streams()
ResubscribeAfterRefresh(refreshed, open) == refreshed /\ open

\* What refresh_ws_subscribe_key can do with the key it holds: without a key
\* it is get_ws_subscribe_key ("obtained" or "failed"); with one, the
\* response carries the same key, another key, no key, or the request raises.
RefreshOutcomes(key) ==
    IF ~hasCreds THEN {"failed"}
    ELSE IF key = NoWsKey THEN {"obtained", "failed"}
    ELSE {"same", "changed", "no_key", "raised"}

KeyAfterRefresh(key, outcome, fresh) ==
    CASE outcome \in {"obtained", "changed"} -> fresh
      [] outcome = "raised" -> NoWsKey
      [] OTHER -> key

RefreshReturns(outcome) == outcome \in {"obtained", "same", "changed"}

\* The maintenance loop wakes from asyncio.sleep(key_refresh_interval) with
\* the client running, refreshes the key, and resubscribes.
MaintRefresh ==
    /\ mpc = "sleep"
    /\ ws_running
    /\ refreshes < MaxRefreshes
    /\ \E outcome \in RefreshOutcomes(subscribe_key_rest) :
          /\ outcome \in {"obtained", "changed"} => ws_minted < MaxWsKeys
          /\ subscribe_key_rest' =
                KeyAfterRefresh(subscribe_key_rest, outcome, ws_minted + 1)
          /\ ws_minted' = IF outcome \in {"obtained", "changed"}
                          THEN ws_minted + 1 ELSE ws_minted
          /\ last_refresh' = [returned |-> IF RefreshReturns(outcome)
                                           THEN "true" ELSE "false",
                              key |-> subscribe_key_rest',
                              open |-> ws_conn_open]
          /\ IF ResubscribeAfterRefresh(RefreshReturns(outcome), ws_conn_open)
             THEN /\ PassEntered("maint")
                  /\ mpc' = "pass"
             ELSE UNCHANGED <<mpc, pass_caller, pass_pc, pass_idx, success_all,
                              pass_log, pass_result>>
    /\ refreshes' = refreshes + 1
    /\ UNCHANGED <<ws_running, ws_conn_open>>
    /\ UNCHANGED notSubs

\* The connection is lost; the listener reconnects.  No other coroutine
\* runs between connect() returning and the first pass entering its loop.
WsConnectionDrops ==
    /\ mpc # "start"
    /\ ws_conn_open
    /\ ws_conn_open' = FALSE
    /\ UNCHANGED <<ws_running, subscribe_key_rest, ws_minted, mpc, refreshes,
                   last_refresh, pass_caller, pass_pc, pass_idx, success_all,
                   pass_log, pass_result>>
    /\ UNCHANGED notSubs

WsReconnected ==
    /\ ~ws_conn_open
    /\ ws_running
    /\ ws_conn_open' = TRUE
    /\ UNCHANGED <<ws_running, subscribe_key_rest, ws_minted, mpc, refreshes,
                   last_refresh, pass_caller, pass_pc, pass_idx, success_all,
                   pass_log, pass_result>>
    /\ UNCHANGED notSubs

\* stop(): _running = False and every task is cancelled: the maintenance
\* loop ends at the await it is at (its sleep, or inside its pass, which then
\* does not return); the pass of start() is no task and breaks at its next
\* turn.  The connection is closed.
WsClientStop ==
    /\ mpc # "start"
    /\ ws_running
    /\ ws_running' = FALSE
    /\ ws_conn_open' = FALSE
    /\ mpc' = IF mpc \in {"sleep", "pass"} THEN "done" ELSE mpc
    /\ pass_pc' = IF mpc = "pass" /\ pass_pc = "loop" THEN "cancelled"
                  ELSE pass_pc
    /\ UNCHANGED <<subscribe_key_rest, ws_minted, refreshes, last_refresh,
                   pass_caller, pass_idx, success_all, pass_log, pass_result>>
    /\ UNCHANGED notSubs

NextSubs ==
    \/ StartSubscribes
    \/ PassAttempt
    \/ PassReturns
    \/ MaintRefresh
    \/ WsConnectionDrops
    \/ WsReconnected
    \/ WsClientStop

\* --------------------------- pushes against a reconciliation cycle in flight
\* Everything but the cached balances and orders, the reconciliation task and
\* the record of the last pushes.
notRaceRecon ==
    <<connVars, aliasVars, keyVars, lock, cpc, cur, hist, backoffVars, pushVars,
      orderVars, readVars, frameVars, subsVars, histVars, apiVars, quietVars>>

\* An assetUpdate payload that is a JSON array.
AssetList == [k \in {"<list>"} |-> "<list>"]

\* What an assetUpdate frame can carry: a non-empty dict of coins, or a list.
AssetPushes == (Maps(Coins, Amounts) \ {EmptyMap}) \cup {AssetList}

NoAssetPush == [phase |-> "none", data |-> EmptyMap]
NoOrderPush == [phase |-> "none", id |-> "", status |-> 0]

InitRace ==
    /\ lastAssetPush = NoAssetPush
    /\ lastOrderPush = NoOrderPush

\* A handler that takes the push for a full snapshot.
on_asset_update_replaces(b, asset_data) ==
    IF "<list>" \notin DOMAIN asset_data THEN set_balances(b, asset_data) ELSE b

\* _on_asset_update_from_ws: a dict goes to StateCache.update_balances,
\* anything else is logged and dropped.
on_asset_update_from_ws(b, asset_data) ==
    IF "<list>" \notin DOMAIN asset_data THEN update_balances(b, asset_data) ELSE b

\* An assetUpdate frame reaches _on_asset_update_from_ws.
AssetUpdateFrame ==
    /\ PushesArrive
    /\ \E asset_data \in AssetPushes :
          /\ balances' = on_asset_update_from_ws(balances, asset_data)
          /\ lastAssetPush' = [phase |-> rpc, data |-> asset_data]
    /\ UNCHANGED <<orders, reconVars, lastOrderPush>>
    /\ UNCHANGED notRaceRecon

\* An orderUpdate frame with a uuid reaches _on_order_update_from_ws.
OrderUpdateArrives ==
    /\ PushesArrive
    /\ \E order_id \in OrderIds, status_code \in StatusCodes :
          /\ orders' = on_order_update_from_ws(orders, order_id, status_code)
          /\ lastOrderPush' = [phase |-> rpc, id |-> order_id,
                               status |-> status_code]
    /\ UNCHANGED <<balances, reconVars, lastAssetPush>>
    /\ UNCHANGED notRaceRecon

\* With the reconciliation task asleep no cycle is in flight: the pushes that
\* arrived are no longer pushes racing with a cycle.
PushesSettle ==
    /\ rpc = "sleep"
    /\ lastAssetPush # NoAssetPush \/ lastOrderPush # NoOrderPush
    /\ lastAssetPush' = NoAssetPush
    /\ lastOrderPush' = NoOrderPush
    /\ UNCHANGED <<balances, orders, reconVars>>
    /\ UNCHANGED notRaceRecon

\* No push is on record as racing with a cycle.
Settled == lastAssetPush = NoAssetPush /\ lastOrderPush = NoOrderPush

\* The next cycle starts.
RaceReconWake == Settled /\ ReconWake

\* A cycle has fetched the balances and awaits
\* rest_trading.get_open_orders(): the pushes that arrive now are applied
\* after that snapshot was taken and before the cycle writes.
SnapshotTaken == rpc = "fetch_orders"

RacingAssetPush == SnapshotTaken /\ AssetUpdateFrame
RacingOrderPush == SnapshotTaken /\ OrderUpdateArrives
EarlierAssetPush == ~SnapshotTaken /\ Settled /\ PushAsset
EarlierOrderPush == ~SnapshotTaken /\ Settled /\ PushOrder

NextRace ==
    \/ SyncStart
    \/ SyncFails
    \/ RaceReconWake
    \/ FetchBalancesOk
    \/ FetchFails
    \/ FetchOrdersOk
    \/ RacingAssetPush
    \/ RacingOrderPush
    \/ EarlierAssetPush
    \/ EarlierOrderPush
    \/ PushesSettle

\* The balance pushes of a client whose reconciliation task is asleep.
NextAsset ==
    \/ SyncStart
    \/ SyncBalancesOk
    \/ SyncOrdersOk
    \/ SyncFails
    \/ AssetUpdateFrame
    \/ PushOrder
    \/ PushKbar

\* ------------------------------- ClientManager._on_historical_kbar_from_ws
\* Everything but the cached orders and klines, the push bookkeeping and the
\* record of the last historical response.
notPushHist ==
    <<connVars, aliasVars, keyVars, balances, lock, cpc, cur, hist, rpc,
      rest_balances, rest_orders, reconCalls, reconOutcome, backoffVars,
      orderVars, readVars, frameVars, subsVars, raceVars, apiVars, quietVars>>

NoHistorical == [pair |-> "", bars |-> <<>>]

InitHist == lastHistorical = NoHistorical

\* The bars of a non-empty historical response for a pair: the rows of the
\* DataFrame _handle_kbar_request_response builds, by ascending open time.
HistoricalBars(pair) ==
    {[i \in 1..n |-> KbarMessage(pair, i)] : n \in 1..MaxOpenTime}

\* StateCache.set_kbars: self._kbars[symbol] = kbars
set_kbars(kb, symbol, bars) == [kb EXCEPT ![symbol] = bars]

\* _on_historical_kbar_from_ws: a non-empty DataFrame is logged ("Needs
\* symbol association for StateCache"); the set_kbars call is commented out.
on_historical_kbar_from_ws(kb, pair, bars) == kb

\* A non-empty historical-kline response is delivered to
\* on_historical_kbar_callback.
HistoricalKbarResponse ==
    \E sym \in Symbols : \E bars \in HistoricalBars(sym) :
        /\ kbars' = on_historical_kbar_from_ws(kbars, sym, bars)
        /\ lastHistorical' = [pair |-> sym, bars |-> bars]
        /\ UNCHANGED <<orders, lastStatus>>
        /\ UNCHANGED notPushHist

\* The last delivery is forgotten before the next frame is handled.
HistoricalHandled ==
    /\ lastHistorical # NoHistorical
    /\ lastHistorical' = NoHistorical
    /\ UNCHANGED <<orders, kbars, lastStatus>>
    /\ UNCHANGED notPushHist

NextHist ==
    \/ KbarFrame
    \/ OrderUpdateFrame
    \/ HistoricalKbarResponse
    \/ HistoricalHandled

\* ------------------------------------- API/WebSockets/WSClient.WebSocketClient
\* The tasks start() creates, by the names it gives them.
LongRunningTasks == {"WSListener", "WSConnectionCheck"}
OneShotTasks == {"WSSubscribeKbar", "WSRequestKbar", "WSSubscribeOrders",
                 "WSSubscribeAssets"}
ApiTaskNames == LongRunningTasks \cup OneShotTasks

InitApi ==
    /\ api_pc = "created"
    /\ api_tasks = [t \in ApiTaskNames |-> "none"]
    /\ api_done = {}
    /\ api_connection = "none"
    /\ api_teardown = "none"

\* task.cancel() on every task of the given set that has not finished.
CancelTasks(tasks, which) ==
    [t \in ApiTaskNames |->
        IF t \in which /\ tasks[t] = "running" THEN "cancelled" ELSE tasks[t]]

\* start(): the connection is established, the six tasks are created and
\* start() suspends in asyncio.wait(self.tasks, return_when=FIRST_COMPLETED).
ApiStart ==
    /\ api_pc = "created"
    /\ api_connection' = "open"
    /\ api_tasks' = [t \in ApiTaskNames |-> "running"]
    /\ api_pc' = "waiting"
    /\ UNCHANGED <<api_done, api_teardown>>
    /\ UNCHANGED notApi

\* A subscription or request coroutine has sent its message and returns.
ApiOneShotCompletes ==
    \E t \in OneShotTasks :
        /\ api_tasks[t] = "running"
        /\ api_tasks' = [api_tasks EXCEPT ![t] = "done"]
        /\ UNCHANGED <<api_pc, api_done, api_connection, api_teardown>>
        /\ UNCHANGED notApi

\* asyncio.wait returns once a task has finished: `done` holds the tasks
\* finished by then, their results are logged, and every task of `pending`
\* is cancelled ("One or more tasks finished. Initiating shutdown sequence.").
ApiWaitReturns ==
    /\ api_pc = "waiting"
    /\ \E t \in ApiTaskNames : api_tasks[t] = "done"
    /\ api_done' = {t \in ApiTaskNames : api_tasks[t] = "done"}
    /\ api_tasks' = CancelTasks(api_tasks, ApiTaskNames \ api_done')
    /\ api_teardown' = "completion"
    /\ api_pc' = "shutdown"
    /\ UNCHANGED api_connection
    /\ UNCHANGED notApi

\* The exchange or the network closes the stream connection.
ApiConnectionLost ==
    /\ api_connection = "open"
    /\ api_connection' = "lost"
    /\ UNCHANGED <<api_pc, api_tasks, api_done, api_teardown>>
    /\ UNCHANGED notApi

\* The listener or the connection check, still running, detects the loss
\* and reconnects.
ApiReconnects ==
    /\ api_connection = "lost"
    /\ \E t \in LongRunningTasks : api_tasks[t] = "running"
    /\ api_connection' = "open"
    /\ UNCHANGED <<api_pc, api_tasks, api_done, api_teardown>>
    /\ UNCHANGED notApi

\* stop(): every task not done is cancelled, the tasks are gathered, and the
\* connection is closed.
ApiStop ==
    /\ api_pc \in {"waiting", "shutdown"}
    /\ api_tasks' = CancelTasks(api_tasks, ApiTaskNames)
    /\ api_teardown' = IF \E t \in ApiTaskNames : api_tasks[t] = "running"
                       THEN "stop" ELSE api_teardown
    /\ api_connection' = "none"
    /\ api_pc' = "stopped"
    /\ UNCHANGED api_done
    /\ UNCHANGED notApi

NextApi ==
    \/ ApiStart
    \/ ApiOneShotCompletes
    \/ ApiWaitReturns
    \/ ApiConnectionLost
    \/ ApiReconnects
    \/ ApiStop

\* ------------------------------ reconciliation once the pushes have ceased
\* The account of this scenario holds one coin and at most one open order.
QuietBalanceSnapshots == Maps({"USDT"}, {"90", "100"})
QuietOrderSnapshots == Maps({"o1"}, OpenCodes)

InitQuiet ==
    /\ quiet = FALSE
    /\ srv_balances = EmptyMap
    /\ srv_orders = EmptyMap

\* The last push has arrived: with credentials configured and the tasks
\* running, the account stops changing, and REST reports the same balances
\* and open orders from now on.
QuietBegins ==
    /\ ~quiet
    /\ Authenticated(hasCreds)
    /\ PushesArrive
    /\ quiet' = TRUE
    /\ \E b \in QuietBalanceSnapshots, o \in QuietOrderSnapshots :
          srv_balances' = b /\ srv_orders' = o
    /\ UNCHANGED notQuiet

\* Pushes, failed fetches and a failed initial sync happen only before that.
EarlyAssetPush == ~quiet /\ PushAsset /\ balances' \in QuietBalanceSnapshots
EarlyOrderPush == ~quiet /\ PushOrder /\ orders' \in QuietOrderSnapshots
EarlyFetchFails == ~quiet /\ FetchFails

\* rest_account.get_balances() returns: any snapshot before the pushes
\* ceased, the constant one after.
RestBalancesReturned ==
    /\ FetchBalancesOk
    /\ rest_balances' \in QuietBalanceSnapshots
    /\ quiet => rest_balances' = srv_balances

\* rest_trading.get_open_orders() returns likewise, and the cycle compares
\* and overwrites.
RestOrdersReturned ==
    /\ FetchOrdersOk
    /\ rest_orders' \in QuietOrderSnapshots
    /\ quiet => rest_orders' = srv_orders

NextQuiet ==
    \/ SyncStart
    \/ SyncFails
    \/ ReconWake
    \/ RestBalancesReturned
    \/ RestOrdersReturned
    \/ EarlyFetchFails
    \/ EarlyAssetPush
    \/ EarlyOrderPush
    \/ QuietBegins

\* ------------------------------------------------------- specifications
ConnectStep == \E t \in ConnTasks :
    ConnectSkipped(t) \/ ConnectFails(t) \/ BackoffWake(t) \/ ReconnectClosed(t)
ConnectSuccess == \E t \in ConnTasks : ConnectSucceeds(t)
FrameArrives == \E kind \in FrameKinds : ListenerFrame(kind)
TaskEnds == \E t \in BackgroundTasks : TaskCancelled(t)
RevokeAnswered == \E failed \in BOOLEAN : RevokeReturns(failed)

Init ==
    /\ InitConn /\ InitCache /\ InitAlias /\ InitKey /\ InitRecon /\ InitBackoff
    /\ InitPush
    /\ InitOrder
    /\ InitRead
    /\ InitFrames
    /\ InitSubs
    /\ InitRace
    /\ InitHist
    /\ InitApi
    /\ InitQuiet

Next ==
    \/ CMStart
    \/ CMStartSynced
    \/ CMStartReturns
    \/ ConnectStep
    \/ ConnectSuccess
    \/ FrameArrives
    \/ ListenerSeesClosed
    \/ CheckerWake
    \/ SubsStep
    \/ KeyMaintWake
    \/ ReconTaskWake
    \/ ReconTaskCycleEnds
    \/ WsGatherDone
    \/ WatchdogWake
    \/ CMStop
    \/ TaskEnds
    \/ CMStopGathered
    \/ RevokeAnswered
    \/ CMStopClosed
    \/ ConnectionDrops

Spec == Init /\ [][Next]_vars

\* Every task of the event loop that is ready runs, every sleep ends, and a
\* connection attempt that keeps being made eventually succeeds.  Frames,
\* connection drops and the application's start and stop are not forced.
FairSpec ==
    /\ Spec
    /\ WF_vars(CMStartSynced)
    /\ WF_vars(CMStartReturns)
    /\ WF_vars(ConnectStep)
    /\ SF_vars(ConnectSuccess)
    /\ WF_vars(ListenerSeesClosed)
    /\ WF_vars(CheckerWake)
    /\ WF_vars(SubsStep)
    /\ WF_vars(WsGatherDone)
    /\ WF_vars(WatchdogWake)
    /\ WF_vars(ReconTaskCycleEnds)
    /\ WF_vars(TaskEnds)
    /\ WF_vars(CMStopGathered)
    /\ WF_vars(RevokeAnswered)
    /\ WF_vars(CMStopClosed)

SpecCache == Init /\ [][NextCache]_vars

SpecAlias == Init /\ [][NextAlias]_vars

SpecKey == Init /\ [][NextKey]_vars
SpecPass == Init /\ [][NextPass]_vars

\* Each asyncio.sleep(300) of the reconciliation loop ends, and each REST
\* fetch returns (before the pushes cease it may also fail).
FairSpecQuiet ==
    /\ Init /\ [][NextQuiet]_vars
    /\ WF_vars(ReconWake)
    /\ WF_vars(RestBalancesReturned)
    /\ WF_vars(RestOrdersReturned)

\* asyncio.Lock wakes its waiters in FIFO order, so a task waiting for the
\* lock gets it once it has been released often enough; a task that holds
\* it runs its body to the release without suspending.  Nothing forces a
\* network response or a new call.
FairSpecLock ==
    /\ Init /\ [][NextLock]_vars
    /\ \A t \in CacheTasks : SF_vars(CallAcquire(t)) /\ WF_vars(CallBody(t))
SpecApi == Init /\ [][NextApi]_vars

SpecRecon == Init /\ [][NextRecon]_vars

SpecBackoff == Init /\ [][NextBackoff]_vars

SpecPush == Init /\ [][NextPush]_vars

SpecOrder == Init /\ [][NextOrder]_vars

SpecRead == Init /\ [][NextRead]_vars

SpecFrames == Init /\ [][NextFrames]_vars

SpecListen == Init /\ [][NextListen]_vars

SpecSubs == Init /\ [][NextSubs]_vars

SpecRace == Init /\ [][NextRace]_vars

SpecHist == Init /\ [][NextHist]_vars

SpecAsset == Init /\ [][NextAsset]_vars

\* The pass and the maintenance loop are tasks of the event loop: a turn
\* that can be taken is taken.
FairSpecSubs == SpecSubs /\ WF_vars(PassAttempt) /\ WF_vars(PassReturns)

\* asyncio.sleep(300) returns.
FairSpecRecon == SpecRecon /\ WF_vars(ReconWake)

\* ------------------------------------------------------------------ claims

\* C1: whenever the established connection is lost while the client has not
\* been asked to stop, the client eventually holds an open connection again
\* (or has meanwhile been asked to stop).
C1_ReconnectsAfterLoss ==
    (connEpoch > 0 /\ connection # "open" /\ ~StopRequested)
        ~> (connection = "open" \/ StopRequested)

\* C2: after a connection drop, the client eventually holds a new connection
\* on which each declared subscription has been sent exactly once (or has
\* meanwhile been asked to stop).
C2_ResubscribedOnce ==
    (connEpoch > 0 /\ connection # "open" /\ ~StopRequested)
        ~> (\/ StopRequested
            \/ /\ connection = "open"
               /\ connEpoch > 1
               /\ \A k \in Declared : subsSent[k] = 1)

\* C10: once a non-JSON frame has been dropped, the next well-formed frame
\* is processed (its handler invoked for push data) and the listener is
\* still listening on the same open connection, with no reconnect or stop.
C10_NextFrameProcessed ==
    [][(nonJsonDropped /\ framesLeft' < framesLeft /\ lastFrame' # "dropped")
        => /\ lastFrame' = "processed"
           /\ pc'["listener"] = "listen"
           /\ keep_running'
           /\ connection' = "open"]_vars

\* The sequential meaning of a sequence of calls: an id is present with the
\* data of its last update_order unless a later close_order removed it.
LastCall(s, id) ==
    LET idx == {i \in 1..Len(s) : s[i].id = id}
    IN IF idx = {} THEN 0 ELSE CHOOSE i \in idx : \A j \in idx : j <= i

Sequentially(s) ==
    [id \in {k \in OrderIds : LastCall(s, k) > 0
                              /\ s[LastCall(s, k)].op = "update_order"}
        |-> s[LastCall(s, id)].data]

\* All interleavings of two sequences that keep the order of each.
RECURSIVE Interleavings(_, _)
Interleavings(a, b) ==
    IF a = <<>> THEN {b}
    ELSE IF b = <<>> THEN {a}
    ELSE {<<Head(a)>> \o s : s \in Interleavings(Tail(a), b)}
         \cup {<<Head(b)>> \o s : s \in Interleavings(a, Tail(b))}

\* C3: under every interleaving of the tasks' update_order and close_order
\* calls, get_orders() equals the result of applying the returned calls one
\* at a time in some order that keeps each task's own call order.
C3_OrdersLinearizable ==
    \E s \in Interleavings(hist["t1"], hist["t2"]) :
        get_orders(orders) = Sequentially(s)

\* Both tasks have returned from all their calls: the
\* cache holds one order updated by one task while the other order was
\* updated and then closed by different tasks.
C3_Witness ==
    /\ Len(hist["t1"]) = MaxCalls
    /\ Len(hist["t2"]) = MaxCalls
    /\ "o1" \in DOMAIN orders
    /\ "o2" \notin DOMAIN orders
    /\ \E i \in 1..MaxCalls, j \in 1..MaxCalls :
          /\ hist["t1"][i].op = "update_order" /\ hist["t1"][i].id = "o2"
          /\ hist["t2"][j].op = "close_order" /\ hist["t2"][j].id = "o2"
    /\ hist["t2"][MaxCalls].op = "update_order"

\* C4: no change a caller makes to a value an accessor returned alters what
\* a later accessor call returns, and no later mutator call alters a value
\* already returned.
C4_AccessorsReturnIsolatedCopies ==
    [][/\ aliasLast' = "caller"
          => /\ Deref(ordersRef)' = Deref(ordersRef)
             /\ Deref(balancesRef)' = Deref(balancesRef)
       /\ aliasLast' = "mutator"
          => /\ Deref(retOrders)' = Deref(retOrders)
             /\ Deref(retBalances)' = Deref(retBalances)]_vars

\* C5: when a refresh fails and the obtain that follows at once succeeds,
\* the call reports success and the held key is the newly minted token, not
\* the rejected one; and every private subscribe message carries the key
\* held when it is sent, never a key that such a rotation has replaced.
C5_KeyRotationHeals ==
    [][/\ \A t \in KeyTasks :
            (kpc[t] = "obtaining" /\ kVia[t] = "rotation"
             /\ kpc'[t] # "obtaining" /\ minted' = minted + 1)
            => /\ kRes'[t] = "true"
               /\ subscribeKey' = minted'
               /\ subscribeKey' # kArg[t]
       /\ \A m \in privSent' \ privSent :
            /\ m.key = subscribeKey'
            /\ m.key \notin rotatedOut']_vars

\* A refresh was rejected, the obtain succeeded, and the asset subscription
\* was then sent with the new key.
C5_Witness ==
    /\ rotatedOut # {}
    /\ \E m \in privSent :
          /\ m.kind = "assetUpdate"
          /\ m.key = subscribeKey
          /\ m.key # NoKey
          /\ \A k \in rotatedOut : k < m.key
    /\ kVia["subs"] = "rotation"

\* C6: when both fetches of a cycle succeed, a view that differs from its
\* REST snapshot is overwritten with it: right after the cycle's writes
\* get_balances() (resp. get_orders()) is the REST snapshot, and the
\* mutator that replaced it was called.
C6_ReconciliationOverwrites ==
    [][(rpc = "fetch_orders" /\ reconOutcome' = "complete")
        => /\ rest_balances # get_balances(balances)
              => /\ get_balances(balances') = rest_balances
                 /\ "set_balances" \in reconCalls'
           /\ rest_orders' # get_orders(orders)
              => /\ get_orders(orders') = rest_orders'
                 /\ "set_orders" \in reconCalls']_vars

\* A cycle has just replaced the cached balances and the cached orders by
\* REST snapshots that differed from them.
C6_Witness ==
    /\ reconOutcome = "complete"
    /\ reconCalls = {"set_balances", "set_orders"}
    /\ rest_balances = [c \in {"USDT"} |-> "100"]
    /\ get_balances(balances) = rest_balances
    /\ get_orders(orders) = rest_orders
    /\ rpc = "sleep"

\* C7: a cycle whose REST balance snapshot equals the cached balances and
\* whose REST order snapshot equals the cached orders calls no StateCache
\* mutator and leaves balances, orders and klines as they were.
C7_MatchingCycleIsNoOp ==
    [][(/\ rpc = "fetch_orders" /\ reconOutcome' = "complete"
        /\ rest_balances = get_balances(balances)
        /\ rest_orders' = get_orders(orders))
        => /\ reconCalls' = {}
           /\ balances' = balances
           /\ orders' = orders
           /\ kbars' = kbars]_vars

\* A cycle over a non-empty cache has completed without calling a mutator.
C7_Witness ==
    /\ reconOutcome = "complete"
    /\ reconCalls = {}
    /\ rpc = "sleep"
    /\ balances # EmptyMap
    /\ orders # EmptyMap
    /\ rest_balances = balances
    /\ rest_orders = orders

\* C8: a fetch that fails leaves balances, orders and klines as they were
\* and the task at its sleep; after a failed cycle the next cycle starts
\* unless the manager is stopped.
C8_FetchFailureSkipsCycle ==
    /\ [][(rpc \in {"fetch_balances", "fetch_orders"} /\ reconOutcome' = "failed")
          => /\ balances' = balances
             /\ orders' = orders
             /\ kbars' = kbars
             /\ reconCalls' = {}
             /\ rpc' = "sleep"]_vars
    /\ (reconOutcome = "failed") ~> (rpc = "fetch_balances" \/ rpc = "cancelled")

\* The order fetch failed after a balance snapshot that differs from the
\* cache had been fetched; the cache still holds its entries.
C8_Witness ==
    /\ reconOutcome = "failed"
    /\ rpc = "sleep"
    /\ balances # EmptyMap
    /\ orders # EmptyMap
    /\ rest_balances # balances

C11_HandlerFailureContained ==
    [][/\ (framesLeft' < framesLeft /\ lastKind' = "kbar_raises")
          => /\ lastFrame' = "handler_error"
             /\ pc'["listener"] = "listen"
             /\ keep_running'
             /\ connection' = "open"
       /\ (framesLeft' < framesLeft /\ lastKind = "kbar_raises"
           /\ lastKind' \in {"status", "kbar"})
          => lastFrame' = "processed"]_vars

\* C12: without credentials no private subscribe message is ever sent, no
\* obtain, refresh or destroy request is ever issued and no key is held,
\* from start through stop; the subscription pass that found the connection
\* open has sent the kbar subscribe.
C12_NoCredentialsNoPrivate ==
    ~hasCreds
        => /\ subsSent["orderUpdate"] = 0
           /\ subsSent["assetUpdate"] = 0
           /\ keyReqs = {}
           /\ ~keyHeld
           /\ subsIdx > 1 => subsSent["kbar"] = 1

\* Without credentials the client connected, subscribed to kbar and was
\* stopped.
C12_Witness ==
    /\ ~hasCreds
    /\ cmState = "stopped"
    /\ connEpoch > 0
    /\ pc["subs"] = "done"
    /\ subsSent["kbar"] = 1

\* C13: without credentials neither the initial sync nor a reconciliation
\* cycle awaits a REST fetch, receives a snapshot or calls a StateCache
\* mutator: every step that changes the cached balances or orders is a push
\* handler's, which leaves the sync and the cycle where they were.
C13_NoCredentialsNoReconciliation ==
    /\ [](~hasCreds
            => /\ rpc \notin {"sync_balances", "sync_orders",
                              "fetch_balances", "fetch_orders"}
               /\ rest_balances = EmptyMap
               /\ rest_orders = EmptyMap
               /\ reconCalls = {}
               /\ reconOutcome \in {"none", "sync_skipped", "skipped"})
    /\ [][(~hasCreds /\ (balances' # balances \/ orders' # orders))
            => /\ UNCHANGED reconVars
               /\ rpc = "sleep"]_vars

\* Without credentials the sync was skipped, pushes filled the cache, and a
\* reconciliation cycle has run and was skipped over the filled cache.
C13_Witness ==
    /\ ~hasCreds
    /\ reconOutcome = "skipped"
    /\ rpc = "sleep"
    /\ balances # EmptyMap
    /\ orders # EmptyMap

\* C14: after any sequence of kbar frames for a pair, the open-times of
\* get_cached_kbars(pair) are strictly increasing.
C14_KbarsStrictlyIncreasing ==
    \A sym \in Symbols :
        LET bars == get_cached_kbars(kbars, sym)
        IN \A i, j \in 1..Len(bars) : i < j => bars[i].t < bars[j].t

\* The statuses the handler's comment names as still open: 0 unsettled,
\* 1 partially filled.
NonTerminalStatus == {0, 1}

C16_StopIdempotent ==
    [][(stopCalls' = stopCalls + 1 /\ cmState \in {"created", "stopped"})
        => /\ cmState' = cmState
           /\ pc' = pc
           /\ connection' = connection
           /\ keep_running' = keep_running
           /\ keyReqs' = keyReqs
           /\ keyHeld' = keyHeld
           /\ subsSent' = subsSent
           /\ stopLog' = stopLog]_vars

\* stop() was called more than once and the manager, once started, is
\* stopped with its one shutdown recorded.
C16_Witness ==
    /\ cmState = "stopped"
    /\ connEpoch > 0
    /\ stopCalls = MaxStopCalls
    /\ stopLog # <<>>
    /\ stopLog[1] = "cancel"
    /\ Len(SelectSeq(stopLog, LAMBDA e : e = "cancel")) = 1

StopOrder == <<"cancel", "tasks_ended", "revoke", "close">>
StopRank(e) == CHOOSE i \in 1..Len(StopOrder) : StopOrder[i] = e
StopDid(e) == \E i \in 1..Len(stopLog) : stopLog[i] = e

\* C17: stop() cancels the background tasks, sees them ended, revokes a held
\* session key, and then closes the connection, in that order: the destroy
\* request is issued with no task running, and the connection is closed by
\* stop() only after the tasks have ended and with no key held any more.
C17_StopOrder ==
    /\ [](\A i, j \in 1..Len(stopLog) :
            i < j => StopRank(stopLog[i]) < StopRank(stopLog[j]))
    /\ [](cmState = "revoking" => \A t \in Tasks : Ended(pc[t]))
    /\ [][/\ (~StopDid("revoke") /\ StopDid("revoke")')
             => /\ \A t \in Tasks : Ended(pc[t])
                /\ connection' = connection
                /\ keep_running' = keep_running
          /\ (~StopDid("close") /\ StopDid("close")')
             => /\ StopDid("tasks_ended")'
                /\ \A t \in Tasks : Ended(pc[t])
                /\ ~keyHeld'
          /\ (cmState \in {"stopping", "revoking"} /\ ~StopDid("close")')
             => keep_running' = keep_running]_vars

\* A running client holding a key was stopped: all four steps happened.
C17_Witness ==
    /\ stopLog = StopOrder
    /\ cmState = "stopped"
    /\ connection = "closed"

\* C18: a destroy request that fails does not stop stop(): the local key is
\* cleared, stop() goes on to close the connection and completes with the
\* connection closed.
C18_RevokeFailureDoesNotBlockStop ==
    /\ [](revokeResult = "failed"
            => /\ ~keyHeld
               /\ cmState \in {"closing", "stopped"}
               /\ cmState = "stopped" => connection # "open")
    /\ (revokeResult = "failed") ~> (cmState = "stopped")

\* The destroy request failed and stop() completed, closing the connection.
C18_Witness ==
    /\ revokeResult = "failed"
    /\ cmState = "stopped"
    /\ connection = "closed"
    /\ ~keyHeld
    /\ "destroy" \in keyReqs

\* C19: once stop() has returned no task of the client is running and the
\* connection is not open, and no later step opens a connection, sends a
\* message, issues a key request or leaves a task running.
C19_NothingAfterStop ==
    /\ [](cmState = "stopped"
            => /\ \A t \in Tasks : Ended(pc[t])
               /\ connection # "open")
    /\ [][cmState = "stopped"
            => /\ connection' # "open"
               /\ connEpoch' = connEpoch
               /\ subsSent' = subsSent
               /\ keyReqs' = keyReqs
               /\ \A t \in Tasks : Ended(pc'[t])]_vars

\* stop() returned on a client that had connected and had tasks running,
\* and stop() was called once more afterwards or meanwhile.
C19_Witness ==
    /\ cmState = "stopped"
    /\ connEpoch > 0
    /\ connection = "closed"
    /\ pc["listener"] = "cancelled"
    /\ pc["watchdog"] = "cancelled"
    /\ pc["recon"] = "cancelled"

\* C20: while the manager is running no background loop has ended, except
\* key maintenance without credentials.
C20_NoTaskEndsSilently ==
    cmState = "running"
        => /\ pc["listener"] # "done"
           /\ pc["checker"] # "done"
           /\ pc["watchdog"] # "done"
           /\ pc["recon"] # "done"
           /\ pc["keyMaint"] = "done" => ~hasCreds

\* A step of place_order: its call or its return.
PlaceOrderStep == placeCalls' # placeCalls \/ opc' # opc

C22_PlaceOrderFailureRaises ==
    (opc = "idle" /\ restOutcome \in {"api_error", "network_error"})
        => oReturn.kind = "raised"

\* C23: in every reachable state a cached-state reader returns; it never
\* raises.
C23_ReadersNeverRaise == readResult.outcome # "raised"

\* C24: a fetch of the initial sync that fails leaves balances, orders and
\* klines as they were and does not end start(): the tasks are launched, so
\* that pushes are handled and the reconciliation loop is at its sleep.
C24_SyncFailureNotFatal ==
    /\ [][(rpc \in {"sync_balances", "sync_orders"}
           /\ reconOutcome' = "sync_failed")
            => /\ balances' = balances
               /\ orders' = orders
               /\ kbars' = kbars
               /\ reconCalls' = {}
               /\ rpc' = "sleep"
               /\ PushesArrive']_vars
    /\ [](reconOutcome = "sync_failed" => rpc \in {"sleep", "cancelled"})

\* The initial sync failed at its second fetch, nothing of the fetched
\* balance snapshot was written, and pushes have since filled the cache.
C24_Witness ==
    /\ reconOutcome = "sync_failed"
    /\ rest_balances # EmptyMap
    /\ rest_orders = EmptyMap
    /\ balances # EmptyMap /\ balances # rest_balances
    /\ orders # EmptyMap
    /\ rpc = "sleep"

\* C25: start() returns to its caller once the tasks are launched, without
\* a stop() having been called, so that `await start(); await stop()`
\* reaches its stop().
C25_StartReturnsAfterLaunch ==
    (startPc = "gather" /\ cmState = "running")
        ~> (startPc = "returned" \/ stopCalls > 0)

\* C26: every decoded frame enters exactly one handling branch and
\* process_incoming_message does not raise; a frame carrying status is
\* handled as a status frame whatever else it carries, and a frame with none
\* of status, action, request with records, and type is logged and dropped.
C26_OneBranchPerFrame ==
    effect # "none"
        => /\ Cardinality(branches) = 1
           /\ branches \subseteq
                {"status", "action", "request_response", "data", "unknown"}
           /\ ~procRaised
           /\ frame.status # "absent" => branches = {"status"}
           /\ (/\ frame.status = "absent" /\ frame.action = "absent"
               /\ frame.type = "absent"
               /\ (frame.request = "absent" \/ frame.records = "absent"))
              => branches = {"unknown"} /\ effect = "unhandled_logged"

\* C27: a frame with request = kbar, columns and matching records is handled
\* as a historical-kline response and its DataFrame delivered to the
\* historical callback, also when it carries action = request.
C27_KbarResponseParsed ==
    (/\ effect # "none"
     /\ frame.status = "absent" /\ frame.request = "kbar"
     /\ frame.columns = "present" /\ frame.records = "rows"
     /\ ~frame.callback_raises)
        => branches = {"request_response"} /\ effect = "historical_delivered"

\* C30: a connect attempt that fails with InvalidURI is fatal: connect raises
\* at once, without counting an attempt or sleeping a backoff delay, and
\* clears _keep_running; from then on the flag stays cleared and the listener
\* loop enters no further connection attempt.
C30_InvalidURIFatal ==
    [][/\ (wsh_pc = "connecting" /\ wsh_pc' = "raised")
            => /\ ~wsh_keep_running'
               /\ wsh_reconnect_attempts' = wsh_reconnect_attempts
               /\ delay' = delay
               /\ actual_delay' = actual_delay
       /\ (~wsh_keep_running /\ wsh_pc # "connecting")
            => /\ ~wsh_keep_running'
               /\ wsh_pc' # "connecting"]_vars

\* The listener's first connect attempt has just been refused for an invalid
\* address: connect raised with no attempt counted and no delay slept.
C30_Witness ==
    /\ wsh_pc = "raised"
    /\ wsh_connection = "none"
    /\ wsh_reconnect_attempts = 0
    /\ actual_delay = 0
    /\ ~wsh_keep_running

PassFailed(i) == pass_log[i].outcome # "sent"

\* C28: an entry that fails (no key, or a send error) does not stop the
\* subscription pass: the entries are attempted in the order of
\* subscriptions_to_make, the for loop is left only past the last entry or
\* with the client no longer running, a pass that returns with the client
\* running has attempted every entry, and it returns False exactly when at
\* least one entry failed.
C28_PassSurvivesEntryFailure ==
    /\ \A i \in 1..Len(pass_log) : pass_log[i].idx = i
    /\ pass_pc = "returned"
        => /\ pass_result = "false" <=> \E i \in 1..Len(pass_log) : PassFailed(i)
           /\ ws_running => Len(pass_log) = Len(subscriptions_to_make)

\* A pass returned False with the client running: its first entry failed on
\* a send error and its last entry was sent.
C28_Witness ==
    /\ pass_pc = "returned"
    /\ ws_running
    /\ pass_result = "false"
    /\ Len(pass_log) = Len(subscriptions_to_make)
    /\ pass_log[1].outcome = "send_error"
    /\ pass_log[Len(pass_log)].outcome = "sent"

\* C29: a refresh or rotation of the key by the maintenance loop with the
\* connection open is followed at once by a subscription pass, which ends;
\* in that pass every entry attempted with the connection open is sent, the
\* private ones carrying the key held after the refresh, and a pass that
\* returns True has sent every declared subscription.
C29_RefreshThenResubscribe ==
    /\ [][(refreshes' = refreshes + 1 /\ last_refresh'.returned = "true"
             /\ ws_conn_open)
            => /\ mpc' = "pass"
               /\ pass_caller' = "maint"
               /\ pass_pc' = "loop"
               /\ pass_log' = <<>>]_vars
    /\ []((pass_caller = "maint" /\ last_refresh.returned = "true"
              /\ last_refresh.open)
            => /\ \A i \in 1..Len(pass_log) :
                     /\ pass_log[i].outcome # "no_key"
                     /\ subscriptions_to_make[i].private
                          => /\ pass_log[i].key = last_refresh.key
                             /\ pass_log[i].key # NoWsKey
               /\ (pass_pc = "returned" /\ pass_result = "true")
                     => /\ Len(pass_log) = Len(subscriptions_to_make)
                        /\ \A i \in 1..Len(pass_log) : ~PassFailed(i))
    /\ (mpc = "pass" /\ pass_pc = "loop") ~> (pass_pc \in {"returned", "cancelled"})

\* The maintenance loop rotated the key and its pass has sent every declared
\* subscription, the private ones with the new key.
C29_Witness ==
    /\ pass_caller = "maint"
    /\ last_refresh.returned = "true"
    /\ last_refresh.open
    /\ pass_pc = "returned"
    /\ pass_result = "true"
    /\ last_refresh.key = 2
    /\ pass_log[Len(subscriptions_to_make)].key = 2

C40_ReconciliationKeepsNewerPush ==
    [][(rpc = "fetch_orders" /\ rpc' = "sleep" /\ reconOutcome' = "complete")
        => /\ (lastAssetPush.phase = "fetch_orders"
                 /\ lastAssetPush.data # AssetList)
                => \A c \in DOMAIN lastAssetPush.data :
                      /\ c \in DOMAIN balances'
                      /\ balances'[c] = lastAssetPush.data[c]
           /\ lastOrderPush.phase = "fetch_orders"
                => IF lastOrderPush.status \in ClosedCodes
                   THEN lastOrderPush.id \notin DOMAIN orders'
                   ELSE /\ lastOrderPush.id \in DOMAIN orders'
                        /\ orders'[lastOrderPush.id] = lastOrderPush.status]_vars

\* C37: when a non-empty historical-kline response for a pair is delivered,
\* the cached klines of that pair are replaced by the bars of the response:
\* get_cached_kbars(pair) returns exactly those bars.
C37_HistoricalReplacesKlines ==
    [][(lastHistorical' # lastHistorical /\ lastHistorical'.pair # "")
        => get_cached_kbars(kbars', lastHistorical'.pair)
              = lastHistorical'.bars]_vars

\* C34: a successful connect resets the failure counter: while the
\* connection is open the counter is zero, and the first counted failure
\* after a connect (no retry delay computed since) waits the delay of a first
\* failure, initial_reconnect_delay, before its jitter.
C34_BackoffRestartsAfterConnect ==
    /\ [](wsh_connection = "open" => wsh_reconnect_attempts = 0)
    /\ [][(wsh_pc = "connecting" /\ wsh_pc' = "sleeping" /\ delay = 0
             /\ wsh_reconnect_attempts' # wsh_reconnect_attempts)
            => /\ wsh_reconnect_attempts' = 1
               /\ delay' = initial_reconnect_delay]_vars

\* A connection was established and lost, and the first retry since waits
\* the first-failure delay.
C34_Witness ==
    /\ wsh_connection = "closed"
    /\ wsh_pc = "sleeping"
    /\ wsh_reconnect_attempts = 1
    /\ delay = initial_reconnect_delay

\* C35: with max_reconnect_attempts = 10 a run of consecutive transient
\* failures ends at the 11th: each of the first 10 is followed by a backoff
\* wait, the 11th makes connect clear _keep_running and return False, and
\* the listener loop then ends without another connect.
C35_RunEndsAtEleventhFailure ==
    /\ [][(wsh_pc = "connecting"
             /\ wsh_reconnect_attempts' = wsh_reconnect_attempts + 1)
            => IF wsh_reconnect_attempts' = max_reconnect_attempts + 1
               THEN wsh_pc' = "returned_false" /\ ~wsh_keep_running'
               ELSE /\ wsh_reconnect_attempts' <= max_reconnect_attempts
                    /\ wsh_pc' = "sleeping"
                    /\ wsh_keep_running' = wsh_keep_running]_vars
    /\ [](wsh_reconnect_attempts = max_reconnect_attempts + 1
            => /\ ~wsh_keep_running
               /\ wsh_pc \in {"returned_false", "listen_sleep", "idle",
                              "terminated"})

\* The listener has ended after connect gave up at its 11th failure.
C35_Witness ==
    /\ wsh_reconnect_attempts = max_reconnect_attempts + 1
    /\ wsh_pc = "terminated"
    /\ delay = max_reconnect_delay

\* C38: every private subscribe message (orderUpdate, assetUpdate) the
\* SubscriptionManager sends carries a non-empty subscribeKey, the key held
\* at the moment of sending; when the key cannot be ensured (the obtain
\* fails), the subscription is given up without any message being sent.
C38_PrivateMessagesCarryHeldKey ==
    [][/\ \A msg \in privSent' \ privSent :
            /\ msg.key # NoKey
            /\ msg.key = subscribeKey'
       /\ (kpc["subs"] \in {"refreshing", "obtaining"}
           /\ privIdx' # privIdx
           /\ kRes'["subs"] = "false")
          => privSent' = privSent]_vars

\* The order subscription was given up for want of a key (no message), and
\* the asset subscription was then sent with the key obtained for it.
C38_Witness ==
    /\ kpc["subs"] = "done"
    /\ kRes["subs"] = "true"
    /\ privSent = {PrivateMessage("assetUpdate", subscribeKey)}
    /\ subscribeKey # NoKey

\* C39: once the subscription pass has ended, and for as long as the client
\* runs and holds a key, every private subscription it has issued carries
\* the key the SubscriptionManager holds: none is left under a key that a
\* refresh failure followed by a new obtain has replaced.
C39_SubscriptionsCarryCurrentKey ==
    (kpc["subs"] = "done" /\ kpc["maint"] # "cancelled" /\ subscribeKey # NoKey)
        => \A msg \in privSent : msg.key = subscribeKey

\* C32: the listener and the connection check keep running after the
\* one-shot subscription and request tasks have completed: they are
\* cancelled only by an explicit stop(), never because a subscription task
\* completed normally.
C32_SessionOutlivesSubscriptions ==
    [][\A t \in LongRunningTasks :
          (api_tasks[t] = "running" /\ api_tasks'[t] = "cancelled")
              => api_teardown' = "stop"]_vars

\* C36: no task awaits network I/O or a sleep while holding the StateCache
\* lock (the holder is always inside the in-memory body of one operation),
\* and every StateCache call a task has issued completes, whatever the
\* other tasks do and however long their network waits last.
C36_LockNeverHeldAcrossIo ==
    /\ [](\A t \in CacheTasks : lock = t => cpc[t] = "body")
    /\ [](\A t \in CacheTasks : cpc[t] = "io" => lock # t)
    /\ \A t \in CacheTasks : (cpc[t] = "acquire") ~> (cpc[t] = "idle")

\* One task is stalled in a network wait while the other, having waited for
\* nothing, has completed a StateCache call issued after the stall began.
C36_Witness ==
    /\ cpc["t1"] = "io"
    /\ Len(hist["t1"]) = 1
    /\ Len(hist["t2"]) = MaxCalls
    /\ lock = "free"

\* C31: with credentials configured and the client running, once no push
\* arrives any more, the REST snapshots stay constant and the fetches
\* succeed, the cached balances and orders eventually equal the REST
\* snapshots and remain equal to them from then on.
C31_QuietCacheConverges ==
    quiet ~> [](balances = srv_balances /\ orders = srv_orders)

\* A cycle run after the pushes ceased fetched the constant snapshots, found
\* both cached views different and overwrote them.
C31_Witness ==
    /\ quiet
    /\ rpc = "sleep"
    /\ reconOutcome = "complete"
    /\ reconCalls = {"set_balances", "set_orders"}
    /\ rest_balances = srv_balances
    /\ rest_orders = srv_orders
    /\ balances = srv_balances
    /\ orders = srv_orders

====
